---- MODULE Spec2Model ----
(***************************************************************************)
(* StockRL-Agent: the trading environment (rl_agents/environment.py,       *)
(* rl_agents/reward.py), the replay buffer (rl_agents/replay_buffer.py),   *)
(* the order simulator (simulator/executor.py, simulator/slippage.py,      *)
(* simulator/fees.py) and the agent-run orchestration                      *)
(* (services/agent_manager.py, api/v1/agent.py, api/websocket.py).         *)
(*                                                                         *)
(* Python floats are represented in fixed point: money in cents,           *)
(* quantities in 1/20000 share, continuous action values in 1/100, rewards *)
(* and period returns in 1/100, slippage rates in 1e-7 and fee rates in    *)
(* 1e-4.                                                                   *)
(***************************************************************************)
EXTENDS Integers, Sequences, FiniteSets, TLC

\* ------------------------------------------------------------------ bounds
Runs == {"r1", "r2"}
MaxStepsBound == 2

\* ------------------------------------------------- fixed-point representation
MONEY_SCALE == 100
QTY_SCALE == 20000
ACT_SCALE == 100
REW_SCALE == 100

\* initial budget of a portfolio: $100.00
InitialCash == 100 * MONEY_SCALE

\* prices a quote can carry ($100.00 and $5.00); 0 stands for a failed fetch
PriceSet == {100 * MONEY_SCALE, 5 * MONEY_SCALE}
FetchFailed == 0
SeqRange(s) == {s[i] : i \in 1..Len(s)}
QuoteSet(tickers) == [SeqRange(tickers) -> PriceSet \cup {FetchFailed}]

RiskProfiles == {"conservative", "moderate", "aggressive"}
ActionSpaceTypes == {"discrete", "continuous"}

\* ------------------------------------------------------------ dict helpers
Get(d, k, default) == IF k \in DOMAIN d THEN d[k] ELSE default
Put(d, k, v) == [x \in (DOMAIN d) \cup {k} |-> IF x = k THEN v ELSE d[x]]
Del(d, k) == [x \in (DOMAIN d) \ {k} |-> d[x]]
EmptyDict == [x \in {} |-> 0]

Max(a, b) == IF a >= b THEN a ELSE b
Min(a, b) == IF a <= b THEN a ELSE b
Abs(a) == IF a < 0 THEN -a ELSE a

RECURSIVE Pow3(_)
Pow3(n) == IF n = 0 THEN 1 ELSE 3 * Pow3(n - 1)

\* floor(n * s1 * s2 / d) for n >= 0, d > 0, in two long-division stages so
\* that no intermediate product leaves the 32-bit range
FixDiv(n, d, s1, s2) ==
    LET q1 == (n * s1) \div d
        r1 == (n * s1) % d
    IN q1 * s2 + (r1 * s2) \div d

\* quotient and remainder of a * b by d (a, b >= 0, d > 0): a * b = q * d + r.
\* The product is formed directly when it fits 32 bits and by halving b
\* otherwise, so that quantities times prices never leave the integer range.
RECURSIVE MulQR(_, _, _)
MulQR(a, b, d) ==
    IF a = 0 \/ b <= 2147483647 \div a
    THEN [q |-> (a * b) \div d, r |-> (a * b) % d]
    ELSE LET h == MulQR(a, b \div 2, d)
             r2 == 2 * h.r + (IF b % 2 = 1 THEN a % d ELSE 0)
         IN [q |-> 2 * h.q + (IF b % 2 = 1 THEN a \div d ELSE 0) + r2 \div d,
             r |-> r2 % d]

\* floor(a * b / d)
MulDiv(a, b, d) == MulQR(a, b, d).q

\* the float quotient n/d scaled by s1*s2, truncated toward zero
SignedFixDiv(n, d, s1, s2) ==
    IF n < 0 THEN -FixDiv(-n, d, s1, s2) ELSE FixDiv(n, d, s1, s2)

RECURSIVE IsqrtSearch(_, _, _)
IsqrtSearch(n, lo, hi) ==
    IF lo >= hi THEN lo
    ELSE LET mid == (lo + hi + 1) \div 2
         IN IF mid * mid <= n THEN IsqrtSearch(n, mid, hi)
            ELSE IsqrtSearch(n, lo, mid - 1)

\* floor of the square root (np.sqrt inside np.std)
Isqrt(n) == IsqrtSearch(n, 0, Min(n, 46340))

RECURSIVE SeqSum(_)
SeqSum(s) == IF s = << >> THEN 0 ELSE Head(s) + SeqSum(Tail(s))

\* np.std: population standard deviation
NpStd(s) ==
    LET n == Len(s)
        mean == SeqSum(s) \div n
        sq == [i \in 1..n |-> (s[i] - mean) * (s[i] - mean)]
    IN Isqrt(SeqSum(sq) \div n)

\* s[-k:]
LastN(s, k) == IF Len(s) <= k THEN s ELSE SubSeq(s, Len(s) - k + 1, Len(s))

\* no clipping
ClipNone(x, lo, hi) == x

\* np.clip
Clip(x, lo, hi) == IF x < lo THEN lo ELSE IF x > hi THEN hi ELSE x

\* ------------------------------------------------------ rl_agents/reward.py
REWARD_CLIP == 10 * REW_SCALE
RETURNS_WINDOW == 20

calculate_reward(prev_nav, current_nav, trade_fees, risk_profile, returns_history, peak_nav) ==
    LET base_reward ==
            IF prev_nav > 0
            THEN SignedFixDiv(current_nav - prev_nav, prev_nav, 100, REW_SCALE)
            ELSE 0
        cost_penalty ==
            IF current_nav > 0
            THEN -((trade_fees * 10 * REW_SCALE) \div current_nav)
            ELSE 0
        volatility_penalty ==
            IF Len(returns_history) > 1
            THEN LET returns_std == NpStd(returns_history)
                 IN IF risk_profile = "conservative" THEN -(returns_std * 2)
                    ELSE IF risk_profile = "moderate" THEN -returns_std
                    ELSE -(returns_std \div 2)
            ELSE 0
        drawdown_penalty ==
            IF peak_nav > 0 /\ current_nav < peak_nav
            THEN -(FixDiv(peak_nav - current_nav, peak_nav, 100, REW_SCALE) \div 20)
            ELSE 0
    IN Clip(base_reward + cost_penalty + volatility_penalty + drawdown_penalty,
            -REWARD_CLIP, REWARD_CLIP)

\* ------------------------------------------------- rl_agents/environment.py
BANKRUPTCY_PENALTY == 10 * REW_SCALE
HOLD_THRESHOLD == ACT_SCALE \div 10
DEFAULT_PRICE == 100 * MONEY_SCALE
LOOKBACK_WINDOW == 30

\* TradingEnvironment.__init__
NewEnv(tickers, initial_cash, risk_profile, action_space_type, max_steps) ==
    [tickers |-> tickers,
     initial_cash |-> initial_cash,
     risk_profile |-> risk_profile,
     action_space_type |-> action_space_type,
     max_steps |-> max_steps,
     lookback_window |-> LOOKBACK_WINDOW,
     current_cash |-> initial_cash,
     positions |-> EmptyDict,
     current_step |-> 0,
     done |-> FALSE,
     nav_history |-> <<initial_cash>>,
     returns_history |-> << >>,
     peak_nav |-> initial_cash,
     market_data_buffer |-> [t \in SeqRange(tickers) |-> << >>],
     current_prices |-> EmptyDict]

RECURSIVE NavSum(_, _)
NavSum(e, ts) ==
    IF ts = {} THEN 0
    ELSE LET t == CHOOSE x \in ts : TRUE
             pos == e.positions[t]
             current_price == Get(e.current_prices, t, pos.avg_price)
         IN MulDiv(pos.quantity, current_price, QTY_SCALE) + NavSum(e, ts \ {t})

compute_nav(e) == e.current_cash + NavSum(e, DOMAIN e.positions)

\* fee_pct = 0.001 if moderate else 0.0005
EnvFee(risk_profile, value) ==
    IF risk_profile = "moderate" THEN value \div 1000 ELSE value \div 2000

\* the price of the last lot in place of the average
WeightedAvgLastPrice(old_qty, old_avg, quantity, price) == price

\* (old_qty * old_avg + quantity * price) / new_qty
WeightedAvg(old_qty, old_avg, quantity, price) ==
    LET new_qty == old_qty + quantity
        x == MulQR(old_qty, old_avg, new_qty)
        y == MulQR(quantity, price, new_qty)
    IN x.q + y.q + (x.r + y.r) \div new_qty

place_buy_order(e, ticker, quantity, price) ==
    IF quantity <= 0 \/ price <= 0 THEN [env |-> e, fees |-> 0]
    ELSE LET value == MulDiv(quantity, price, QTY_SCALE)
             fees == EnvFee(e.risk_profile, value)
             total_cost == value + fees
         IN IF total_cost > e.current_cash THEN [env |-> e, fees |-> 0]
            ELSE LET newpos ==
                         IF ticker \in DOMAIN e.positions
                         THEN LET old_qty == e.positions[ticker].quantity
                                  old_avg == e.positions[ticker].avg_price
                                  new_qty == old_qty + quantity
                              IN [quantity |-> new_qty,
                                  avg_price |-> WeightedAvg(old_qty, old_avg, quantity, price)]
                         ELSE [quantity |-> quantity, avg_price |-> price]
                 IN [env |-> [e EXCEPT !.current_cash = @ - total_cost,
                                       !.positions = Put(@, ticker, newpos)],
                     fees |-> fees]

\* a position is never dropped
IsDustNever(quantity) == FALSE

\* quantity < 0.0001
IsDust(quantity) ==
    quantity <= 0 \/ (quantity < QTY_SCALE /\ quantity * 10000 < QTY_SCALE)

place_sell_order(e, ticker, quantity0, price) ==
    IF quantity0 <= 0 \/ price <= 0 THEN [env |-> e, fees |-> 0]
    ELSE IF ticker \notin DOMAIN e.positions THEN [env |-> e, fees |-> 0]
    ELSE LET available == e.positions[ticker].quantity
             quantity == Min(quantity0, available)
             value == MulDiv(quantity, price, QTY_SCALE)
             fees == EnvFee(e.risk_profile, value)
             proceeds == value - fees
             left == available - quantity
         IN [env |-> [e EXCEPT !.current_cash = @ + proceeds,
                               !.positions =
                                   IF IsDust(left) THEN Del(@, ticker)
                                   ELSE Put(@, ticker, [quantity |-> left,
                                                        avg_price |-> e.positions[ticker].avg_price])],
             fees |-> fees]

\* one iteration of the per-ticker loop of _execute_discrete_action
DiscreteOne(e, ticker, action) ==
    IF action = 0 THEN [env |-> e, fees |-> 0]
    ELSE IF action = 1
    THEN LET buy_amount == e.current_cash \div 10
             current_price == Get(e.current_prices, ticker, DEFAULT_PRICE)
         IN IF current_price > 0
            THEN place_buy_order(e, ticker, MulDiv(buy_amount, QTY_SCALE, current_price), current_price)
            ELSE [env |-> e, fees |-> 0]
    ELSE IF ticker \in DOMAIN e.positions
         THEN place_sell_order(e, ticker, e.positions[ticker].quantity \div 10,
                               Get(e.current_prices, ticker, e.positions[ticker].avg_price))
         ELSE [env |-> e, fees |-> 0]

\* the decoding loop of _execute_discrete_action: temp % 3, then temp //= 3
RECURSIVE decode_loop(_, _)
decode_loop(temp, n) ==
    IF n = 0 THEN << >> ELSE <<temp % 3>> \o decode_loop(temp \div 3, n - 1)

\* a decoding that yields the most significant digit first
decode_action_reversed(action_index, n) ==
    [i \in 1..n |-> decode_loop(action_index, n)[n + 1 - i]]

\* the list `actions` of _execute_discrete_action
decode_action(action_index, n) == decode_loop(action_index, n)

RECURSIVE execute_discrete_loop(_, _, _, _)
execute_discrete_loop(e, action_index, i, total_fees) ==
    IF i > Len(e.tickers) THEN [env |-> e, fees |-> total_fees]
    ELSE LET r == DiscreteOne(e, e.tickers[i], decode_action(action_index, Len(e.tickers))[i])
         IN execute_discrete_loop(r.env, action_index, i + 1, total_fees + r.fees)

execute_discrete_action(e, action_index) == execute_discrete_loop(e, action_index, 1, 0)

\* one iteration of the per-ticker loop of _execute_continuous_action
ContinuousOne(e, ticker, action_value) ==
    IF Abs(action_value) < HOLD_THRESHOLD THEN [env |-> e, fees |-> 0]
    ELSE LET current_price == Get(e.current_prices, ticker, DEFAULT_PRICE)
         IN IF action_value > 0
            THEN LET buy_amount == (e.current_cash * Abs(action_value)) \div (2 * ACT_SCALE)
                 IN IF current_price > 0
                    THEN place_buy_order(e, ticker, MulDiv(buy_amount, QTY_SCALE, current_price), current_price)
                    ELSE [env |-> e, fees |-> 0]
            ELSE IF ticker \in DOMAIN e.positions
                 THEN place_sell_order(e, ticker,
                          MulDiv(e.positions[ticker].quantity, Abs(action_value), ACT_SCALE),
                          current_price)
                 ELSE [env |-> e, fees |-> 0]

RECURSIVE execute_continuous_loop(_, _, _, _)
execute_continuous_loop(e, action, i, total_fees) ==
    IF i > Len(e.tickers) THEN [env |-> e, fees |-> total_fees]
    ELSE LET r == ContinuousOne(e, e.tickers[i], action[i])
         IN execute_continuous_loop(r.env, action, i + 1, total_fees + r.fees)

execute_continuous_action(e, action) == execute_continuous_loop(e, action, 1, 0)

execute_action(e, action) ==
    IF e.action_space_type = "discrete"
    THEN execute_discrete_action(e, action)
    ELSE execute_continuous_action(e, action)

\* _fetch_market_data in which a failed fetch ends the loop
RECURSIVE fetch_loop_abort(_, _, _)
fetch_loop_abort(e, quotes, i) ==
    IF i > Len(e.tickers) THEN e
    ELSE LET t == e.tickers[i]
         IN IF quotes[t] = FetchFailed
            THEN e
            ELSE fetch_loop_abort([e EXCEPT !.market_data_buffer[t] =
                                                LastN(Append(@, quotes[t]), e.lookback_window * 2),
                                            !.current_prices = Put(@, t, quotes[t])],
                                  quotes, i + 1)

\* _fetch_market_data: a quote that cannot be fetched raises inside the try
\* block of its ticker, before the buffer and the price are touched; a
\* sample of the buffer is represented by its close, which is the quote's price
RECURSIVE fetch_loop(_, _, _)
fetch_loop(e, quotes, i) ==
    IF i > Len(e.tickers) THEN e
    ELSE LET t == e.tickers[i]
         IN IF quotes[t] = FetchFailed
            THEN fetch_loop(e, quotes, i + 1)
            ELSE fetch_loop([e EXCEPT !.market_data_buffer[t] =
                                          LastN(Append(@, quotes[t]), e.lookback_window * 2),
                                      !.current_prices = Put(@, t, quotes[t])],
                            quotes, i + 1)

fetch_market_data(e, quotes) == fetch_loop(e, quotes, 1)

\* ------------------------------------------------ rl_agents/observation.py
\* An observation is a sequence of entries; an entry names the quantity it
\* carries (kind) and the value or the sample it is computed from (of).
Entry(kind, of) == [kind |-> kind, of |-> of]

\* np.zeros(n)
Zeros(n) == [i \in 1..n |-> Entry("zero", 0)]

\* ObservationBuilder.get_observation_dim
get_observation_dim(n_tickers, lookback_window) ==
    LET portfolio_dim == 1 + (n_tickers * 2)
        market_dim == n_tickers * lookback_window * 3
        indicator_dim == n_tickers * 5
    IN portfolio_dim + market_dim + indicator_dim

\* TradingEnvironment._format_positions
format_positions(e) ==
    [t \in DOMAIN e.positions |->
        LET pos == e.positions[t]
            current_price == Get(e.current_prices, t, pos.avg_price)
        IN [market_value |-> MulDiv(pos.quantity, current_price, QTY_SCALE),
            unrealized_pnl_percent |->
                SignedFixDiv(current_price - pos.avg_price, pos.avg_price, 100, 100)]]

RECURSIVE portfolio_loop(_, _, _, _)
portfolio_loop(tickers, positions, nav, i) ==
    IF i > Len(tickers) THEN << >>
    ELSE LET t == tickers[i]
         IN (IF t \in DOMAIN positions
             THEN <<Entry("position_ratio",
                          IF nav > 0
                          THEN FixDiv(positions[t].market_value, nav, 100, 100) ELSE 0),
                    Entry("unrealized_pnl", positions[t].unrealized_pnl_percent)>>
             ELSE <<Entry("position_ratio", 0), Entry("unrealized_pnl", 0)>>)
            \o portfolio_loop(tickers, positions, nav, i + 1)

\* ObservationBuilder._build_portfolio_obs
build_portfolio_obs(tickers, portfolio_state) ==
    <<Entry("cash_ratio",
            IF portfolio_state.initial_budget > 0
            THEN SignedFixDiv(portfolio_state.cash, portfolio_state.initial_budget, 100, 100)
            ELSE 0)>>
    \o portfolio_loop(tickers, portfolio_state.positions, portfolio_state.nav, 1)

\* the samples the market block is computed from: data[-lookback_window:],
\* left-padded with its first sample
recent_data(data, lookback_window) ==
    LET recent == LastN(data, lookback_window)
    IN IF Len(recent) < lookback_window /\ recent # << >>
       THEN [i \in 1..(lookback_window - Len(recent)) |-> recent[1]] \o recent
       ELSE recent

RECURSIVE market_loop(_, _, _)
market_loop(recent, lookback_window, i) ==
    IF i > lookback_window THEN << >>
    ELSE <<Entry("normalized_price", recent[i]),
           Entry("normalized_volume", recent[i]),
           Entry("return", IF i > 1 /\ recent[i - 1] > 0
                           THEN <<recent[i - 1], recent[i]>> ELSE << >>)>>
         \o market_loop(recent, lookback_window, i + 1)

\* a market block whose zero block has one entry per sample
build_market_obs_short_zeros(data, lookback_window) ==
    IF data = << >>
    THEN Zeros(lookback_window)
    ELSE market_loop(recent_data(data, lookback_window), lookback_window, 1)

\* ObservationBuilder._build_market_obs
build_market_obs(data, lookback_window) ==
    IF data = << >>
    THEN Zeros(lookback_window * 3)
    ELSE market_loop(recent_data(data, lookback_window), lookback_window, 1)

\* TradingEnvironment._calculate_indicators: the defaults below 20 samples,
\* the computed values from 20 samples on
calculate_indicators(e) ==
    [t \in SeqRange(e.tickers) |->
        IF Len(e.market_data_buffer[t]) < 20 THEN "default" ELSE "computed"]

\* ObservationBuilder._build_indicator_obs
build_indicator_obs(indicators) ==
    <<Entry("sma_20_ratio", indicators), Entry("sma_50_ratio", indicators),
      Entry("rsi", indicators), Entry("macd_signal", indicators),
      Entry("bb_position", indicators)>>

RECURSIVE market_blocks(_, _, _, _)
market_blocks(tickers, market_data, lookback_window, i) ==
    IF i > Len(tickers) THEN << >>
    ELSE (IF tickers[i] \in DOMAIN market_data
          THEN build_market_obs(market_data[tickers[i]], lookback_window)
          ELSE Zeros(lookback_window * 3))
         \o market_blocks(tickers, market_data, lookback_window, i + 1)

RECURSIVE indicator_blocks(_, _, _)
indicator_blocks(tickers, indicators, i) ==
    IF i > Len(tickers) THEN << >>
    ELSE (IF tickers[i] \in DOMAIN indicators
          THEN build_indicator_obs(indicators[tickers[i]])
          ELSE Zeros(5))
         \o indicator_blocks(tickers, indicators, i + 1)

\* ObservationBuilder.build
build(tickers, lookback_window, portfolio_state, market_data, indicators) ==
    build_portfolio_obs(tickers, portfolio_state)
    \o market_blocks(tickers, market_data, lookback_window, 1)
    \o indicator_blocks(tickers, indicators, 1)

\* TradingEnvironment._get_observation
get_observation(e) ==
    build(e.tickers, e.lookback_window,
          [cash |-> e.current_cash, initial_budget |-> e.initial_cash,
           nav |-> compute_nav(e), positions |-> format_positions(e)],
          e.market_data_buffer,
          calculate_indicators(e))

\* a reset that restores the cash and the counters but keeps the positions
reset_keeps_positions(e, quotes) ==
    fetch_market_data(
        [e EXCEPT !.current_cash = e.initial_cash,
                  !.current_step = 0,
                  !.done = FALSE,
                  !.nav_history = <<e.initial_cash>>,
                  !.returns_history = << >>,
                  !.peak_nav = e.initial_cash,
                  !.market_data_buffer = [t \in SeqRange(e.tickers) |-> << >>],
                  !.current_prices = EmptyDict],
        quotes)

\* TradingEnvironment.reset
reset(e, quotes) ==
    fetch_market_data(
        [e EXCEPT !.current_cash = e.initial_cash,
                  !.positions = EmptyDict,
                  !.current_step = 0,
                  !.done = FALSE,
                  !.nav_history = <<e.initial_cash>>,
                  !.returns_history = << >>,
                  !.peak_nav = e.initial_cash,
                  !.market_data_buffer = [t \in SeqRange(e.tickers) |-> << >>],
                  !.current_prices = EmptyDict],
        quotes)

StepLimitReachedOffByOne(current_step, max_steps) == current_step > max_steps

\* the termination test of TradingEnvironment.step
StepLimitReached(current_step, max_steps) == current_step >= max_steps

Bankrupt(nav, initial_cash) == nav * 10 < initial_cash

TerminationPenaltyOnLimit(e, current_nav, current_step, reward) ==
    IF Bankrupt(current_nav, e.initial_cash)
    THEN [done |-> TRUE, reward |-> reward - BANKRUPTCY_PENALTY]
    ELSE IF StepLimitReached(current_step, e.max_steps)
    THEN [done |-> TRUE, reward |-> reward - BANKRUPTCY_PENALTY]
    ELSE [done |-> e.done, reward |-> reward]

\* the bankruptcy/limit branch of TradingEnvironment.step: the new done flag
\* and the reward handed back
Termination(e, current_nav, current_step, reward) ==
    IF Bankrupt(current_nav, e.initial_cash)
    THEN [done |-> TRUE, reward |-> reward - BANKRUPTCY_PENALTY]
    ELSE IF StepLimitReached(current_step, e.max_steps)
    THEN [done |-> TRUE, reward |-> reward]
    ELSE [done |-> e.done, reward |-> reward]

\* TradingEnvironment.step
step(e, action, quotes) ==
    LET prev_nav == compute_nav(e)
        ex == execute_action(e, action)
        e2 == fetch_market_data(ex.env, quotes)
        current_nav == compute_nav(e2)
        raw == calculate_reward(prev_nav, current_nav, ex.fees, e.risk_profile,
                                LastN(e.returns_history, RETURNS_WINDOW), e.peak_nav)
        returns2 == IF prev_nav > 0
                    THEN Append(e.returns_history,
                                SignedFixDiv(current_nav - prev_nav, prev_nav, 10, 10))
                    ELSE e.returns_history
        current_step == e.current_step + 1
        term == Termination(e, current_nav, current_step, raw)
        e3 == [e2 EXCEPT !.nav_history = Append(@, current_nav),
                         !.returns_history = returns2,
                         !.peak_nav = Max(@, current_nav),
                         !.current_step = current_step,
                         !.done = term.done]
    IN [env |-> e3, reward |-> term.reward, done |-> term.done,
        raw_reward |-> raw, prev_nav |-> prev_nav,
        info |-> [nav |-> current_nav, cash |-> e3.current_cash,
                  step |-> current_step, positions |-> Cardinality(DOMAIN e3.positions),
                  trade_fees |-> ex.fees]]

\* ------------------------------------------------------ simulator/slippage.py
\* A rate is held in units of 1e-7, a slippage amount in units of 1e-7 cent.
RATE_SCALE == 10000000

\* SlippageModel(): base_slippage 0.0001, size_impact 0.00001, max_slippage 0.01
DefaultSlippageModel ==
    [base_slippage |-> 1000, size_impact |-> 100, max_slippage |-> 100000]

\* SlippageModel(base_slippage=0.0, size_impact=0.0): an executor without slippage
ZeroSlippageModel ==
    [base_slippage |-> 0, size_impact |-> 0, max_slippage |-> 100000]

\* calculate_slippage without the cap of line 49
calculate_slippage_uncapped(price, quantity, side, model) ==
    LET order_value == MulDiv(quantity, price, QTY_SCALE)
        slippage_pct == model.base_slippage
                        + MulDiv(order_value, model.size_impact, 1000 * MONEY_SCALE)
        direction == IF side = "BUY" THEN 1 ELSE -1
    IN slippage_pct * price * direction

calculate_slippage(price, quantity, side, model) ==
    LET order_value == MulDiv(quantity, price, QTY_SCALE)
        size_component == MulDiv(order_value, model.size_impact, 1000 * MONEY_SCALE)
        slippage_pct == Min(model.base_slippage + size_component, model.max_slippage)
        direction == IF side = "BUY" THEN 1 ELSE -1
    IN slippage_pct * price * direction

\* ---------------------------------------------------------- simulator/fees.py
\* A fee rate is held in units of 1e-4, a fee in units of 1e-4 cent, so that
\* rate times order value is exact.
FEE_SCALE == 10000

\* FeeCalculator(): 0.1%, 0.05%, 0.02%, minimum fee $0.01
DefaultFeeCalculator ==
    [conservative_fee_pct |-> 10, moderate_fee_pct |-> 5, aggressive_fee_pct |-> 2,
     min_fee |-> FEE_SCALE]

\* calculate_fees without the minimum of line 56
calculate_fees_no_minimum(price, quantity, risk_profile, calculator) ==
    LET fee_pct == IF risk_profile = "conservative" THEN calculator.conservative_fee_pct
                   ELSE IF risk_profile = "aggressive" THEN calculator.aggressive_fee_pct
                   ELSE calculator.moderate_fee_pct
    IN fee_pct * MulDiv(quantity, price, QTY_SCALE)

calculate_fees(price, quantity, risk_profile, calculator) ==
    LET fee_pct == IF risk_profile = "conservative" THEN calculator.conservative_fee_pct
                   ELSE IF risk_profile = "aggressive" THEN calculator.aggressive_fee_pct
                   ELSE calculator.moderate_fee_pct
        order_value == MulDiv(quantity, price, QTY_SCALE)
        fee == fee_pct * order_value
    IN Max(fee, calculator.min_fee)

\* ------------------------------------------------------ simulator/executor.py
\* an amount in finer units, in whole cents (truncated toward zero)
ToMoney(x, scale) == IF x < 0 THEN -((-x) \div scale) ELSE x \div scale

\* the rows the executor works on: the Portfolio row, its Position rows by
\* ticker and its Trade rows, oldest first, and the executor's configuration
NewBook(initial_cash, risk_profile, slippage_model) ==
    [portfolio |-> [current_cash |-> initial_cash, risk_profile |-> risk_profile],
     positions |-> EmptyDict,
     trades |-> << >>,
     slippage_model |-> slippage_model,
     fee_calculator |-> DefaultFeeCalculator]

\* OrderExecutor._execute_buy
execute_buy(b, order, execution_price, slippage, fees) ==
    LET total_cost == MulDiv(order.quantity, execution_price, QTY_SCALE) + fees
    IN IF b.portfolio.current_cash < total_cost
       THEN [book |-> b, error |-> "InsufficientFundsError", fees |-> 0,
             price |-> execution_price]
       ELSE LET position ==
                    IF order.ticker \in DOMAIN b.positions
                    THEN LET p == b.positions[order.ticker]
                         IN [quantity |-> p.quantity + order.quantity,
                             avg_purchase_price |->
                                 WeightedAvg(p.quantity, p.avg_purchase_price,
                                             order.quantity, execution_price)]
                    ELSE [quantity |-> order.quantity, avg_purchase_price |-> execution_price]
                trade == [ticker |-> order.ticker, side |-> "BUY",
                          quantity |-> order.quantity, price |-> execution_price,
                          slippage |-> slippage, fees |-> fees]
            IN [book |-> [b EXCEPT !.portfolio.current_cash = @ - total_cost,
                                   !.positions = Put(@, order.ticker, position),
                                   !.trades = Append(@, trade)],
                error |-> "none", fees |-> fees, price |-> execution_price]

\* proceeds of a SELL from which the fee is not taken
SellProceedsGross(value, fees) == value

\* proceeds = (execution_price * order.quantity) - fees
SellProceeds(value, fees) == value - fees

\* OrderExecutor._execute_sell
execute_sell(b, order, execution_price, slippage, fees) ==
    IF order.ticker \notin DOMAIN b.positions
       \/ b.positions[order.ticker].quantity < order.quantity
    THEN [book |-> b, error |-> "InsufficientQuantityError", fees |-> 0,
          price |-> execution_price]
    ELSE LET proceeds == SellProceeds(MulDiv(order.quantity, execution_price, QTY_SCALE), fees)
             left == b.positions[order.ticker].quantity - order.quantity
             trade == [ticker |-> order.ticker, side |-> "SELL",
                       quantity |-> order.quantity, price |-> execution_price,
                       slippage |-> Abs(slippage), fees |-> fees]
         IN [book |-> [b EXCEPT !.portfolio.current_cash = @ + proceeds,
                                !.positions =
                                    IF left = 0 THEN Del(@, order.ticker)
                                    ELSE Put(@, order.ticker,
                                             [b.positions[order.ticker] EXCEPT !.quantity = left]),
                                !.trades = Append(@, trade)],
             error |-> "none", fees |-> fees, price |-> execution_price]

\* OrderExecutor.execute_order
execute_order(b, order) ==
    LET slippage == ToMoney(calculate_slippage(order.price, order.quantity, order.side,
                                               b.slippage_model), RATE_SCALE)
        execution_price == order.price + slippage
        fees == ToMoney(calculate_fees(execution_price, order.quantity,
                                       b.portfolio.risk_profile, b.fee_calculator), FEE_SCALE)
    IN IF order.side = "BUY"
       THEN execute_buy(b, order, execution_price, slippage, fees)
       ELSE execute_sell(b, order, execution_price, slippage, fees)

\* ------------------------------------------------ rl_agents/replay_buffer.py
\* what the last call of sample() was given and what it returned
NoSample == [batch_size |-> 0, error |-> "none", batch |-> << >>, added |-> << >>]

\* ReplayBuffer.__init__: the arrays are preallocated with zeros.  A
\* transition is represented by its number; `added` lists the transitions
\* added since the buffer was created or cleared, `total` counts all of them
NewReplayBuffer(capacity) ==
    [capacity |-> capacity,
     slots |-> [i \in 1..capacity |-> 0],
     position |-> 0,
     size |-> 0,
     added |-> << >>,
     total |-> 0,
     sampled |-> NoSample]

\* add() whose size is not capped at the capacity
add_uncapped(b, transition) ==
    [b EXCEPT !.slots[b.position + 1] = transition,
              !.position = (b.position + 1) % b.capacity,
              !.size = b.size + 1]

\* ReplayBuffer.add
add(b, transition) ==
    [b EXCEPT !.slots[b.position + 1] = transition,
              !.position = (b.position + 1) % b.capacity,
              !.size = Min(b.size + 1, b.capacity)]

\* ReplayBuffer.sample; indices is what np.random.randint(0, size, batch_size) drew
sample(b, batch_size, indices) ==
    IF b.size < batch_size
    THEN [error |-> "ValueError", batch |-> << >>]
    ELSE [error |-> "none", batch |-> [i \in 1..batch_size |-> b.slots[indices[i] + 1]]]

\* ReplayBuffer.__len__
len(b) == b.size

\* ReplayBuffer.clear
clear(b) == [b EXCEPT !.position = 0, !.size = 0]

\* ---------------------------------------------------------------- state
VARIABLES
    env,              \* run -> the TradingEnvironment of the run
    ret,              \* run -> what the last reset()/step() call on that environment returned
    agent_runs,       \* run -> the persisted AgentRun row (status "none": no row)
    metrics,          \* run -> the persisted AgentMetric rows, oldest first
    running_agents,   \* AgentManager.running_agents: the run ids that have a task registered
    agent_instances,  \* AgentManager.agent_instances: the run ids that have a policy registered
    task,             \* run -> the asyncio task of the run: where its coroutine is suspended
    start,            \* run -> the POST /agent/start handler that creates the run
    stop,             \* call -> a call of AgentManager.stop_agent
    cancel_steps,     \* run -> environment steps executed since task.cancel() was called on its task
    scope,            \* which runs, stop calls and faults the behaviour exercises
    book,             \* the database of the OrderExecutor: portfolio row, positions, trades
    orders,           \* the orders placed so far, oldest first, each with what it found and left
    buffer,           \* a ReplayBuffer, with the transitions added to it since it was created or cleared
    calc              \* the last call made on its own: its arguments, what it found and returned

vars == <<env, ret, agent_runs, metrics, running_agents, agent_instances, task,
          start, stop, cancel_steps, scope, book, orders, buffer, calc>>

sim_vars == <<book, orders, buffer, calc>>

orch_vars == <<agent_runs, metrics, running_agents, agent_instances, task,
               start, stop, cancel_steps>>

\* no executor database, no replay buffer, no call made
NoBook == NewBook(0, "none", ZeroSlippageModel)
NoBuffer == [NewReplayBuffer(0) EXCEPT !.sampled = NoSample]
NoCalc == [fn |-> "none"]

SimIdle ==
    /\ book = NoBook
    /\ orders = << >>
    /\ buffer = NoBuffer
    /\ calc = NoCalc

NoRet == [op |-> "none", reward |-> 0, raw_reward |-> 0, done |-> FALSE,
          nav |-> 0, step |-> 0, fees |-> 0]

StepRet(r) == [op |-> "step", reward |-> r.reward, raw_reward |-> r.raw_reward,
               done |-> r.done, nav |-> r.info.nav, step |-> r.info.step,
               fees |-> r.info.trade_fees]

ResetRet(e) == [op |-> "reset", reward |-> 0, raw_reward |-> 0, done |-> e.done,
                nav |-> compute_nav(e), step |-> e.current_step, fees |-> 0]

\* ------------------------------------------------ services/agent_manager.py
StopIds == {1, 2}
Portfolios == {"p1", "p2"}
NumEpisodes == 2
LogInterval == 2
MaxLiveSteps == 10
DuoLiveSteps == 2

YIELD_INTERVAL == 100
LIVE_LOG_INTERVAL == 10
LIVE_MAX_STEPS == 10000
DEFAULT_LOG_INTERVAL == 25

\* models/agent_run.py, schemas/agent.py: the algorithm names a request may carry
AgentAlgorithm == {"PPO", "DQN", "A2C", "SB3_PPO", "SB3_A2C"}
AgentMode == {"train", "live"}
TerminalStatus == {"stopped", "failed", "completed"}

\* AgentManager._create_agent: the policy class built, or the ValueError raised
create_agent(algorithm) ==
    IF algorithm = "PPO" THEN "PPOAgent"
    ELSE IF algorithm = "DQN" THEN "DQNAgent"
    ELSE IF algorithm = "A2C" THEN "A2CAgent"
    ELSE "ValueError"

\* select_action(observation, training) of the PPO, DQN and A2C agents: with
\* training the action is sampled (from the policy's distribution, or at
\* random with probability epsilon), without it the mean or the argmax is taken
select_action(training) == IF training THEN "sampled" ELSE "greedy"

\* log_interval = int(hyperparameters.get("log_interval", 25)); <= 0 becomes 25
log_interval ==
    IF LogInterval <= 0 THEN DEFAULT_LOG_INTERVAL ELSE LogInterval

\* the portfolio every run trades: one ticker, moderate risk, continuous actions
OrchTickers == <<"AAPL">>
TrainEnv == NewEnv(OrchTickers, InitialCash, "moderate", "continuous", MaxStepsBound)
LiveEnv == NewEnv(OrchTickers, InitialCash, "moderate", "continuous", LIVE_MAX_STEPS)

\* what the policy and the market do in one loop iteration: hold in a calm
\* market, or buy with 95% of the cash right before the price collapses
OrchInputs ==
    {[action |-> <<0>>, quotes |-> [t \in SeqRange(OrchTickers) |-> 100 * MONEY_SCALE]],
     [action |-> <<(19 * ACT_SCALE) \div 10>>, quotes |-> [t \in SeqRange(OrchTickers) |-> 5 * MONEY_SCALE]]}
OrchResetQuotes == [t \in SeqRange(OrchTickers) |-> 100 * MONEY_SCALE]

\* faults the collaborators can inject
AllFaults == {"policy", "metric_db", "ws_fail", "ws_suspend"}

\* The behaviours explored: one run with every fault and two stop calls, or
\* two concurrent runs (one training, one live) with policy faults and one
\* stop call.  The live loop has no end of its own: live_steps caps its
\* step counter.
NoScope == [runs |-> {}, stops |-> {}, faults |-> {}, algorithms |-> {},
            live_steps |-> 0,
            modes |-> [r \in Runs |-> {}], portfolios |-> [r \in Runs |-> {}]]
SoloScope == [runs |-> {"r1"}, stops |-> StopIds, faults |-> AllFaults,
              algorithms |-> {"PPO", "SB3_PPO"},
              live_steps |-> MaxLiveSteps,
              modes |-> [r \in Runs |-> AgentMode],
              portfolios |-> [r \in Runs |-> {"p1"}]]
FairScope == [runs |-> {"r1"}, stops |-> {1}, faults |-> {"ws_fail", "ws_suspend"},
              algorithms |-> {"PPO"},
              live_steps |-> 0,
              modes |-> [r \in Runs |-> {"train"}],
              portfolios |-> [r \in Runs |-> {"p1"}]]
DuoScope == [runs |-> Runs, stops |-> {1}, faults |-> {"policy"},
             algorithms |-> {"A2C"},
             live_steps |-> DuoLiveSteps,
             modes |-> [r \in Runs |-> IF r = "r1" THEN {"train"} ELSE {"live"}],
             portfolios |-> [r \in Runs |-> IF r = "r1" THEN {"p1"} ELSE Portfolios]]

NoRun == [status |-> "none", error_message |-> "none", final_nav |-> -1,
          portfolio |-> "none", algorithm |-> "none", mode |-> "none"]
\* (total_reward is not a variable of the code: it sums the rewards of all the
\* steps the loop has taken, for the properties about the metrics)
NoTask == [pc |-> "none", mode |-> "none", site |-> "none", episode |-> 0,
           step |-> 0, accum |-> 0, episode_reward |-> 0, total_reward |-> 0,
           selected |-> "none", must_cancel |-> FALSE, err |-> "none"]
NoStart == [pc |-> "idle", algorithm |-> "none", mode |-> "none", portfolio |-> "none"]
NoStop == [pc |-> "idle", run |-> "none", entry |-> "none", err |-> "none"]

\* task positions: suspended at an await that yields to the event loop,
\* executing between two such awaits, or ended
SuspendedPcs == {"pending", "lm_db", "lm_send", "yield", "live_sleep", "complete_db", "fail_db"}
RunningPcs == {"loop"}
DonePcs == {"finished", "raised", "cancelled"}

\* the event loop is single-threaded: while a task executes between two awaits
\* nothing else runs
Busy == \E r \in Runs : task[r].pc \in RunningPcs

OrchIdle ==
    /\ agent_runs = [r \in Runs |-> NoRun]
    /\ metrics = [r \in Runs |-> << >>]
    /\ running_agents = {}
    /\ agent_instances = {}
    /\ task = [r \in Runs |-> NoTask]
    /\ start = [r \in Runs |-> NoStart]
    /\ stop = [s \in StopIds |-> NoStop]
    /\ cancel_steps = [r \in Runs |-> -1]

\* --------------------------------------------- _complete_agent_run etc.
\* AgentManager._complete_agent_run
complete_agent_run(rows, r, final_nav) ==
    IF rows[r].status # "none"
    THEN [rows EXCEPT ![r].status = "completed", ![r].final_nav = final_nav]
    ELSE rows

\* _fail_agent_run without `agent_run.error_message = error_message`
fail_agent_run_without_text(rows, r, error_message) ==
    IF rows[r].status # "none"
    THEN [rows EXCEPT ![r].status = "failed"]
    ELSE rows

\* AgentManager._fail_agent_run
fail_agent_run(rows, r, error_message) ==
    IF rows[r].status # "none"
    THEN [rows EXCEPT ![r].status = "failed", ![r].error_message = error_message]
    ELSE rows

\* AgentManager._log_metric: the row added by the independent session
log_metric(rows, step_no, reward, nav) ==
    LET cumulative_reward ==
            IF Len(rows) > 0 THEN reward + rows[Len(rows)].cumulative_reward ELSE reward
    IN Append(rows, [step |-> step_no, episode_reward |-> reward,
                     cumulative_reward |-> cumulative_reward, portfolio_nav |-> nav])

\* the arguments of the _log_metric call at each of its four call sites
MetricArgs(t, e, rt) ==
    IF t.site = "warm" THEN [step |-> t.step, reward |-> 0, nav |-> compute_nav(e)]
    ELSE IF t.site = "live" THEN [step |-> t.step, reward |-> rt.reward, nav |-> rt.nav]
    ELSE [step |-> t.step, reward |-> t.accum, nav |-> rt.nav]

\* ------------------------------------------------ _run_training control flow
\* top of the episode loop body: reset, then the warm-start metric
StartEpisode(t, e) ==
    LET e2 == reset(e, OrchResetQuotes)
    IN [t |-> [t EXCEPT !.step = 0, !.accum = 0, !.episode_reward = 0,
                        !.pc = "lm_db", !.site = "warm"],
        e |-> e2, rt |-> ResetRet(e2)]

\* range(episodes - 1): the loop leaves one episode out
EpisodeLoopOneShort(t, e, rt, registered) ==
    IF t.episode < NumEpisodes - 1 /\ registered
    THEN [t |-> [t EXCEPT !.step = 0, !.accum = 0, !.episode_reward = 0,
                          !.pc = "lm_db", !.site = "warm"],
          e |-> reset(e, OrchResetQuotes), rt |-> ResetRet(reset(e, OrchResetQuotes))]
    ELSE [t |-> [t EXCEPT !.pc = "complete_db", !.site = "none"], e |-> e, rt |-> rt]

\* for episode in range(episodes): break when the run is no longer registered;
\* after the loop _complete_agent_run is awaited
EpisodeLoop(t, e, rt, registered) ==
    IF t.episode < NumEpisodes /\ registered
    THEN StartEpisode(t, e)
    ELSE [t |-> [t EXCEPT !.pc = "complete_db", !.site = "none"], e |-> e, rt |-> rt]

\* end of the episode body (the checkpoint every 10 episodes keeps no state here)
NextEpisode(t, e, rt, registered) ==
    EpisodeLoop([t EXCEPT !.episode = @ + 1, !.accum = 0], e, rt, registered)

\* after `while not done`: the final-chunk metric when reward is left over
EpisodeEnd(t, e, rt, registered) ==
    IF t.accum # 0
    THEN [t |-> [t EXCEPT !.pc = "lm_db", !.site = "final"], e |-> e, rt |-> rt]
    ELSE NextEpisode(t, e, rt, registered)

\* the `while not done` test
WhileNotDone(t, e, rt, registered) ==
    IF ~e.done
    THEN [t |-> [t EXCEPT !.pc = "loop", !.site = "none"], e |-> e, rt |-> rt]
    ELSE EpisodeEnd(t, e, rt, registered)

\* `if step % 100 == 0: await asyncio.sleep(0)`
YieldCheck(t, e, rt, registered) ==
    IF t.step % YIELD_INTERVAL = 0
    THEN [t |-> [t EXCEPT !.pc = "yield", !.site = "none"], e |-> e, rt |-> rt]
    ELSE WhileNotDone(t, e, rt, registered)

\* a return from _log_metric after which the interval sum is not cleared
AfterLogKeepsAccum(t, e, rt, registered) ==
    IF t.site = "warm" THEN WhileNotDone(t, e, rt, registered)
    ELSE IF t.site = "interim" THEN YieldCheck(t, e, rt, registered)
    ELSE IF t.site = "final" THEN NextEpisode(t, e, rt, registered)
    ELSE [t |-> [t EXCEPT !.pc = "live_sleep", !.site = "none"], e |-> e, rt |-> rt]

\* where the coroutine goes once a _log_metric call has returned
AfterLog(t, e, rt, registered) ==
    IF t.site = "warm" THEN WhileNotDone(t, e, rt, registered)
    ELSE IF t.site = "interim" THEN YieldCheck([t EXCEPT !.accum = 0], e, rt, registered)
    ELSE IF t.site = "final" THEN NextEpisode(t, e, rt, registered)
    ELSE [t |-> [t EXCEPT !.pc = "live_sleep", !.site = "none"], e |-> e, rt |-> rt]

\* where the coroutine goes when a _log_metric call raises: only the
\* warm-start call is wrapped in `except Exception: pass`; the other call sites
\* have a bare try/finally (training) or nothing (live), so the error reaches
\* the `except Exception` of the loop and _fail_agent_run is awaited
AfterLogError(t, e, rt, registered) ==
    IF t.site = "warm" THEN WhileNotDone(t, e, rt, registered)
    ELSE [t |-> [t EXCEPT !.pc = "fail_db", !.err = "metric", !.accum = 0, !.site = "none"],
          e |-> e, rt |-> rt]

\* one iteration of the training loop body up to its next await; res is what
\* `await env.step(action)` returned
TrainIteration(t, res, registered) ==
    LET t2 == [t EXCEPT !.step = @ + 1, !.accum = @ + res.reward,
                        !.episode_reward = @ + res.reward,
                        !.total_reward = @ + res.reward,
                        !.selected = select_action(TRUE)]
        rt == StepRet(res)
    IN IF t2.step % log_interval = 0
       THEN [t |-> [t2 EXCEPT !.pc = "lm_db", !.site = "interim"], e |-> res.env, rt |-> rt]
       ELSE YieldCheck(t2, res.env, rt, registered)

\* one iteration of the live loop body up to its next await; res is what
\* `await env.step(action)` returned
LiveIteration(t, res) ==
    LET t2 == [t EXCEPT !.step = @ + 1, !.selected = select_action(FALSE)]
        rt == StepRet(res)
    IN IF t2.step % LIVE_LOG_INTERVAL = 0
       THEN [t |-> [t2 EXCEPT !.pc = "lm_db", !.site = "live"], e |-> res.env, rt |-> rt]
       ELSE [t |-> [t2 EXCEPT !.pc = "live_sleep", !.site = "none"], e |-> res.env, rt |-> rt]

\* --------------------------------------------------------- the run's task
Apply(r, o) ==
    /\ task' = [task EXCEPT ![r] = o.t]
    /\ env' = [env EXCEPT ![r] = o.e]
    /\ ret' = [ret EXCEPT ![r] = o.rt]

\* environment steps executed after task.cancel(): -1 before any cancel()
CountStep(r) ==
    cancel_steps' = [cancel_steps EXCEPT ![r] = IF @ < 0 THEN @ ELSE Min(@ + 1, 2)]

\* _run_training is resumed by the event loop after a plain suspension: its
\* first scheduling, or the asyncio.sleep(0) of a long episode
TrainWake(r) ==
    /\ ~Busy
    /\ task[r].mode = "train"
    /\ task[r].pc \in {"pending", "yield"}
    /\ ~task[r].must_cancel
    /\ Apply(r, IF task[r].pc = "pending"
                THEN EpisodeLoop(task[r], TrainEnv, NoRet, r \in running_agents)
                ELSE WhileNotDone(task[r], env[r], ret[r], r \in running_agents))
    /\ UNCHANGED <<agent_runs, metrics, running_agents, agent_instances, start, stop,
                   cancel_steps, scope, sim_vars>>

\* one pass of the `while not done` body: select_action, env.step, bookkeeping
TrainStep(r) ==
    /\ task[r].pc = "loop"
    /\ \E inp \in OrchInputs :
       \E res \in {step(env[r], inp.action, inp.quotes)} :
           Apply(r, TrainIteration(task[r], res, r \in running_agents))
    /\ CountStep(r)
    /\ UNCHANGED <<agent_runs, metrics, running_agents, agent_instances, start, stop, scope, sim_vars>>

\* agent.select_action or env.step raises inside the training loop
TrainRaise(r) ==
    /\ task[r].pc = "loop"
    /\ "policy" \in scope.faults
    /\ task' = [task EXCEPT ![r].pc = "fail_db", ![r].err = "policy", ![r].site = "none"]
    /\ UNCHANGED <<env, ret, agent_runs, metrics, running_agents, agent_instances, start,
                   stop, cancel_steps, scope, sim_vars>>

\* a live loop without `if done: observation = await env.reset()`
LiveEnvNoReset(r) ==
    IF task[r].pc = "pending" THEN reset(LiveEnv, OrchResetQuotes) ELSE env[r]

\* the environment the live loop enters its `while` test with
LiveEnvAtWake(r) ==
    IF task[r].pc = "pending" THEN reset(LiveEnv, OrchResetQuotes)
    ELSE IF env[r].done THEN reset(env[r], OrchResetQuotes)
    ELSE env[r]

LiveRetAtWake(r) ==
    IF task[r].pc = "pending" \/ env[r].done THEN ResetRet(LiveEnvAtWake(r)) ELSE ret[r]

\* _run_live_trading is resumed: first scheduling, or after asyncio.sleep(60)
LiveWake(r) ==
    /\ ~Busy
    /\ task[r].mode = "live"
    /\ task[r].pc \in {"pending", "live_sleep"}
    /\ ~task[r].must_cancel
    /\ IF r \notin running_agents
       THEN /\ Apply(r, [t |-> [task[r] EXCEPT !.pc = "finished"],
                         e |-> LiveEnvAtWake(r), rt |-> LiveRetAtWake(r)])
            /\ UNCHANGED cancel_steps
       ELSE /\ task[r].step < scope.live_steps
            /\ \E inp \in OrchInputs :
                \E res \in {step(LiveEnvAtWake(r), inp.action, inp.quotes)} :
                   Apply(r, LiveIteration(task[r], res))
            /\ CountStep(r)
    /\ UNCHANGED <<agent_runs, metrics, running_agents, agent_instances, start, stop, scope, sim_vars>>

\* agent.select_action or env.step raises inside the live loop
LiveRaise(r) ==
    /\ ~Busy
    /\ task[r].mode = "live"
    /\ task[r].pc \in {"pending", "live_sleep"}
    /\ ~task[r].must_cancel
    /\ r \in running_agents
    /\ "policy" \in scope.faults
    /\ Apply(r, [t |-> [task[r] EXCEPT !.pc = "fail_db", !.err = "policy"],
                 e |-> LiveEnvAtWake(r), rt |-> LiveRetAtWake(r)])
    /\ UNCHANGED <<agent_runs, metrics, running_agents, agent_instances, start, stop,
                   cancel_steps, scope, sim_vars>>

\* what the database and the WebSocket layer do with one _log_metric call
LogOutcomes ==
    {"sent"} \cup (IF "metric_db" \in scope.faults THEN {"db_error"} ELSE {})
             \cup (IF "ws_fail" \in scope.faults THEN {"send_error"} ELSE {})
             \cup (IF "ws_suspend" \in scope.faults THEN {"send_suspends"} ELSE {})

\* _log_metric is resumed from its database awaits (select, then commit)
LogMetricDb(r) ==
    /\ ~Busy
    /\ task[r].pc = "lm_db"
    /\ ~task[r].must_cancel
    /\ \E oc \in LogOutcomes :
        LET a == MetricArgs(task[r], env[r], ret[r])
        IN IF oc = "db_error"
           THEN /\ Apply(r, AfterLogError(task[r], env[r], ret[r], r \in running_agents))
                /\ UNCHANGED metrics
           ELSE /\ metrics' = [metrics EXCEPT ![r] = log_metric(@, a.step, a.reward, a.nav)]
                /\ IF oc = "send_suspends"
                   THEN Apply(r, [t |-> [task[r] EXCEPT !.pc = "lm_send"],
                                  e |-> env[r], rt |-> ret[r]])
                   ELSE Apply(r, AfterLog(task[r], env[r], ret[r], r \in running_agents))
    /\ UNCHANGED <<agent_runs, running_agents, agent_instances, start, stop,
                   cancel_steps, scope, sim_vars>>

\* ConnectionManager.broadcast is resumed from `await connection.send_json`
LogMetricSend(r) ==
    /\ ~Busy
    /\ task[r].pc = "lm_send"
    /\ ~task[r].must_cancel
    /\ Apply(r, AfterLog(task[r], env[r], ret[r], r \in running_agents))
    /\ UNCHANGED <<agent_runs, metrics, running_agents, agent_instances, start, stop,
                   cancel_steps, scope, sim_vars>>

\* _complete_agent_run is resumed from its commit
CompleteDb(r) ==
    /\ ~Busy
    /\ task[r].pc = "complete_db"
    /\ ~task[r].must_cancel
    /\ agent_runs' = complete_agent_run(agent_runs, r, compute_nav(env[r]))
    /\ task' = [task EXCEPT ![r].pc = "finished"]
    /\ UNCHANGED <<env, ret, metrics, running_agents, agent_instances, start, stop,
                   cancel_steps, scope, sim_vars>>

\* _fail_agent_run is resumed from its commit; the task then re-raises
FailDb(r) ==
    /\ ~Busy
    /\ task[r].pc = "fail_db"
    /\ ~task[r].must_cancel
    /\ agent_runs' = fail_agent_run(agent_runs, r, task[r].err)
    /\ task' = [task EXCEPT ![r].pc = "raised"]
    /\ UNCHANGED <<env, ret, metrics, running_agents, agent_instances, start, stop,
                   cancel_steps, scope, sim_vars>>

\* Does a CancelledError thrown at this await leave the coroutine?  Every
\* handler on the way up is `except Exception`, which lets it pass, except the
\* bare `except:` around `await connection.send_json` in
\* ConnectionManager.broadcast, which swallows it.
CancelPropagates(pc) == pc # "lm_send"

\* the event loop resumes a task on which cancel() was called: CancelledError
\* is thrown at the await the task is suspended in.  A database commit that was
\* in flight may or may not have taken effect.
TaskCancelled(r) ==
    /\ ~Busy
    /\ task[r].pc \in SuspendedPcs
    /\ task[r].must_cancel
    /\ IF CancelPropagates(task[r].pc)
       THEN /\ task' = [task EXCEPT ![r].pc = "cancelled", ![r].must_cancel = FALSE]
            /\ UNCHANGED <<env, ret>>
            /\ \E committed \in BOOLEAN :
                 LET a == MetricArgs(task[r], env[r], ret[r])
                 IN /\ metrics' = IF committed /\ task[r].pc = "lm_db"
                                  THEN [metrics EXCEPT ![r] = log_metric(@, a.step, a.reward, a.nav)]
                                  ELSE metrics
                    /\ agent_runs' =
                         IF committed /\ task[r].pc = "complete_db"
                         THEN complete_agent_run(agent_runs, r, compute_nav(env[r]))
                         ELSE IF committed /\ task[r].pc = "fail_db"
                         THEN fail_agent_run(agent_runs, r, task[r].err)
                         ELSE agent_runs
       ELSE /\ Apply(r, AfterLog([task[r] EXCEPT !.must_cancel = FALSE], env[r], ret[r],
                                 r \in running_agents))
            /\ UNCHANGED <<metrics, agent_runs>>
    /\ UNCHANGED <<running_agents, agent_instances, start, stop, cancel_steps, scope, sim_vars>>

\* ------------------------------------------------ AgentManager.stop_agent
\* the rest of stop_agent once `await task` is over: the task's exception
\* propagates (only CancelledError is caught), otherwise the bookkeeping is
\* deleted and the status query is awaited
AfterAwaitTask(s, r, call) ==
    IF task[r].pc = "raised"
    THEN /\ stop' = [stop EXCEPT ![s] = [call EXCEPT !.pc = "raised", !.err = "task_exception"]]
         /\ UNCHANGED <<running_agents, agent_instances>>
    ELSE IF r \notin running_agents
    THEN /\ stop' = [stop EXCEPT ![s] = [call EXCEPT !.pc = "raised", !.err = "KeyError"]]
         /\ UNCHANGED <<running_agents, agent_instances>>
    ELSE /\ stop' = [stop EXCEPT ![s] = [call EXCEPT !.pc = "select"]]
         /\ running_agents' = running_agents \ {r}
         /\ agent_instances' = agent_instances \ {r}

\* the ids stop_agent is called with: the id of a run whose row exists, or an
\* id no run ever has
StopTarget(r) == agent_runs[r].status # "none" \/ r \notin scope.runs

\* stop_agent is called: `if agent_run_id in self.running_agents: task.cancel()`
\* and `await task`, which does not suspend when the task is already over
StopCall(s, r) ==
    /\ ~Busy
    /\ s \in scope.stops
    /\ StopTarget(r)
    /\ stop[s].pc = "idle"
    /\ IF r \in running_agents
       THEN IF task[r].pc \in DonePcs
            THEN /\ AfterAwaitTask(s, r, [stop[s] EXCEPT !.run = r, !.entry = task[r].pc])
                 /\ UNCHANGED <<task, cancel_steps>>
            ELSE /\ stop' = [stop EXCEPT ![s] = [pc |-> "await_task", run |-> r,
                                                 entry |-> "executing", err |-> "none"]]
                 /\ task' = [task EXCEPT ![r].must_cancel = TRUE]
                 /\ cancel_steps' = [cancel_steps EXCEPT ![r] = Max(@, 0)]
                 /\ UNCHANGED <<running_agents, agent_instances>>
       ELSE /\ stop' = [stop EXCEPT ![s] = [pc |-> "select", run |-> r,
                                            entry |-> "unregistered", err |-> "none"]]
            /\ UNCHANGED <<task, cancel_steps, running_agents, agent_instances>>
    /\ UNCHANGED <<env, ret, agent_runs, metrics, start, scope, sim_vars>>

\* `await task` is resumed: the task is over
StopAwaitTask(s) ==
    /\ ~Busy
    /\ stop[s].pc = "await_task"
    /\ task[stop[s].run].pc \in DonePcs
    /\ AfterAwaitTask(s, stop[s].run, stop[s])
    /\ UNCHANGED <<env, ret, agent_runs, metrics, task, start, cancel_steps, scope, sim_vars>>

\* a reconciliation that only touches rows still RUNNING
NeedsStopWriteOnlyRunning(row) == row.status = "running"

\* the reconciliation test of stop_agent
NeedsStopWrite(row) == row.status # "none" /\ row.status # "stopped"

\* the status query of stop_agent is resumed
StopSelect(s) ==
    /\ ~Busy
    /\ stop[s].pc = "select"
    /\ stop' = [stop EXCEPT ![s].pc = IF NeedsStopWrite(agent_runs[stop[s].run])
                                      THEN "commit" ELSE "returned"]
    /\ UNCHANGED <<env, ret, agent_runs, metrics, running_agents, agent_instances, task,
                   start, cancel_steps, scope, sim_vars>>

\* the commit of stop_agent is resumed: the row now reads STOPPED
StopCommit(s) ==
    /\ ~Busy
    /\ stop[s].pc = "commit"
    /\ agent_runs' = [agent_runs EXCEPT ![stop[s].run].status = "stopped"]
    /\ stop' = [stop EXCEPT ![s].pc = "returned"]
    /\ UNCHANGED <<env, ret, metrics, running_agents, agent_instances, task, start,
                   cancel_steps, scope, sim_vars>>

\* ------------------------------------------- api/v1/agent.py: POST /agent/start
\* the request passed schema validation (the algorithm matches the pattern of
\* StartAgentRequest); the handler awaits its portfolio and running-run queries
StartRequest(r) ==
    /\ ~Busy
    /\ r \in scope.runs
    /\ start[r].pc = "idle"
    /\ \E alg \in scope.algorithms, m \in scope.modes[r], p \in scope.portfolios[r] :
           start' = [start EXCEPT ![r] = [pc |-> "check", algorithm |-> alg,
                                          mode |-> m, portfolio |-> p]]
    /\ UNCHANGED <<env, ret, agent_runs, metrics, running_agents, agent_instances, task,
                   stop, cancel_steps, scope, sim_vars>>

\* "Check if agent already running for this portfolio"
AlreadyRunning(rows, p) ==
    \E r \in Runs : rows[r].portfolio = p /\ rows[r].status = "running"

\* the running-run query is resumed: 400 when a RUNNING run exists, otherwise
\* the AgentRun row is added with status RUNNING and the commit is awaited
StartCheck(r) ==
    /\ ~Busy
    /\ start[r].pc = "check"
    /\ start' = [start EXCEPT ![r].pc = IF AlreadyRunning(agent_runs, start[r].portfolio)
                                        THEN "rejected" ELSE "commit"]
    /\ UNCHANGED <<env, ret, agent_runs, metrics, running_agents, agent_instances, task,
                   stop, cancel_steps, scope, sim_vars>>

\* the commit of the new row is resumed; db.refresh is awaited
StartCommit(r) ==
    /\ ~Busy
    /\ start[r].pc = "commit"
    /\ agent_runs' = [agent_runs EXCEPT ![r] =
                          [status |-> "running", error_message |-> "none", final_nav |-> -1,
                           portfolio |-> start[r].portfolio, algorithm |-> start[r].algorithm,
                           mode |-> start[r].mode]]
    /\ start' = [start EXCEPT ![r].pc = "refresh"]
    /\ UNCHANGED <<env, ret, metrics, running_agents, agent_instances, task, stop,
                   cancel_steps, scope, sim_vars>>

\* db.refresh is resumed and AgentManager.start_agent runs: _create_agent,
\* then the policy and the new task are registered; when _create_agent raises
\* the handler sets the row to FAILED and awaits the commit
StartAgent(r) ==
    /\ ~Busy
    /\ start[r].pc = "refresh"
    /\ IF create_agent(start[r].algorithm) = "ValueError"
       THEN /\ start' = [start EXCEPT ![r].pc = "fail_commit"]
            /\ UNCHANGED <<running_agents, agent_instances, task>>
       ELSE /\ start' = [start EXCEPT ![r].pc = "started"]
            /\ agent_instances' = agent_instances \cup {r}
            /\ running_agents' = running_agents \cup {r}
            /\ task' = [task EXCEPT ![r] = [NoTask EXCEPT !.pc = "pending",
                                                          !.mode = start[r].mode]]
    /\ UNCHANGED <<env, ret, agent_runs, metrics, stop, cancel_steps, scope, sim_vars>>

\* the commit of the FAILED status is resumed; the handler answers 500
StartFailCommit(r) ==
    /\ ~Busy
    /\ start[r].pc = "fail_commit"
    /\ agent_runs' = [agent_runs EXCEPT ![r].status = "failed",
                                        ![r].error_message = "Unknown algorithm"]
    /\ start' = [start EXCEPT ![r].pc = "failed"]
    /\ UNCHANGED <<env, ret, metrics, running_agents, agent_instances, task, stop,
                   cancel_steps, scope, sim_vars>>

\* ------------------------------------------------------- the orchestrator
Init ==
    /\ env = [r \in Runs |-> TrainEnv]
    /\ ret = [r \in Runs |-> NoRet]
    /\ OrchIdle
    /\ SimIdle
    /\ scope \in {SoloScope, DuoScope}

Next ==
    \/ \E r \in Runs : StartRequest(r)
    \/ \E r \in Runs : StartCheck(r)
    \/ \E r \in Runs : StartCommit(r)
    \/ \E r \in Runs : StartAgent(r)
    \/ \E r \in Runs : StartFailCommit(r)
    \/ \E r \in Runs : TrainWake(r)
    \/ \E r \in Runs : TrainStep(r)
    \/ \E r \in Runs : TrainRaise(r)
    \/ \E r \in Runs : LiveWake(r)
    \/ \E r \in Runs : LiveRaise(r)
    \/ \E r \in Runs : LogMetricDb(r)
    \/ \E r \in Runs : LogMetricSend(r)
    \/ \E r \in Runs : CompleteDb(r)
    \/ \E r \in Runs : FailDb(r)
    \/ \E r \in Runs : TaskCancelled(r)
    \/ \E s \in StopIds, r \in Runs : StopCall(s, r)
    \/ \E s \in StopIds : StopAwaitTask(s)
    \/ \E s \in StopIds : StopSelect(s)
    \/ \E s \in StopIds : StopCommit(s)

Spec == Init /\ [][Next]_vars

\* ------------------------------------- one training run under fair scheduling
\* a step of the task of run r
TaskStep(r) ==
    \/ TrainWake(r)
    \/ TrainStep(r)
    \/ LogMetricDb(r)
    \/ LogMetricSend(r)
    \/ CompleteDb(r)
    \/ TaskCancelled(r)

InitFair ==
    /\ env = [r \in Runs |-> TrainEnv]
    /\ ret = [r \in Runs |-> NoRet]
    /\ OrchIdle
    /\ SimIdle
    /\ scope = FairScope

NextFair ==
    \/ \E r \in Runs : StartRequest(r)
    \/ \E r \in Runs : StartCheck(r)
    \/ \E r \in Runs : StartCommit(r)
    \/ \E r \in Runs : StartAgent(r)
    \/ \E r \in Runs : TrainWake(r)
    \/ \E r \in Runs : TrainStep(r)
    \/ \E r \in Runs : LogMetricDb(r)
    \/ \E r \in Runs : LogMetricSend(r)
    \/ \E r \in Runs : CompleteDb(r)
    \/ \E r \in Runs : TaskCancelled(r)
    \/ \E s \in StopIds, r \in Runs : StopCall(s, r)
    \/ \E s \in StopIds : StopAwaitTask(s)
    \/ \E s \in StopIds : StopSelect(s)
    \/ \E s \in StopIds : StopCommit(s)

\* the event loop resumes every task that is ready, and the database and the
\* sockets answer every await: a task that can take a step takes one
SpecFair == InitFair /\ [][NextFair]_vars /\ \A r \in Runs : WF_vars(TaskStep(r))

\* ------------------------------------------- the environment on its own
EnvRun == "r1"
EnvTickers == <<"AAPL", "MSFT">>

\* quotes of one market advance: every ticker priced, or the first one failing
EnvQuotes ==
    {q \in QuoteSet(EnvTickers) : \A i \in 2..Len(EnvTickers) : q[EnvTickers[i]] # FetchFailed}

\* every index of the action space, and the two indices next to it
DiscreteActions == (-1)..Pow3(Len(EnvTickers))
\* SELL 190% of the position, HOLD, BUY with 95% of the cash (1.9 and -1.9 lie
\* outside [-1, 1]; _execute_action does not clip)
ContinuousValues == {-((19 * ACT_SCALE) \div 10), 0, (19 * ACT_SCALE) \div 10}
ContinuousActions == [1..Len(EnvTickers) -> ContinuousValues]

ActionsOf(e) ==
    IF e.action_space_type = "discrete" THEN DiscreteActions ELSE ContinuousActions

InitEnv ==
    /\ \E rp \in {"moderate", "conservative"}, ast \in ActionSpaceTypes, ms \in 1..MaxStepsBound :
          env = [r \in Runs |-> NewEnv(EnvTickers, InitialCash, rp, ast, ms)]
    /\ ret = [r \in Runs |-> NoRet]
    /\ OrchIdle
    /\ SimIdle
    /\ scope = NoScope

EnvReset ==
    \E q \in EnvQuotes :
        LET e == reset(env[EnvRun], q)
        IN /\ env' = [env EXCEPT ![EnvRun] = e]
           /\ ret' = [ret EXCEPT ![EnvRun] = ResetRet(e)]
           /\ UNCHANGED <<orch_vars, scope, sim_vars>>

\* the loops of the agent manager step an environment only after a reset and
\* never once it reported done (agent_manager.py:247, 366-367)
EnvStep ==
    /\ ret[EnvRun].op # "none"
    /\ ~env[EnvRun].done
    /\ \E a \in ActionsOf(env[EnvRun]), q \in EnvQuotes :
        \E r \in {step(env[EnvRun], a, q)} :
           /\ env' = [env EXCEPT ![EnvRun] = r.env]
           /\ ret' = [ret EXCEPT ![EnvRun] = StepRet(r)]
           /\ UNCHANGED <<orch_vars, scope, sim_vars>>

NextEnv == EnvReset \/ EnvStep

SpecEnv == InitEnv /\ [][NextEnv]_vars

\* ------------------------------------------------- orders placed one by one
\* _place_buy_order, _place_sell_order and OrderExecutor.execute_order applied
\* to a fresh environment or to a fresh executor database
MaxOrders == 3
OrderTickers == <<"AAPL">>
Sides == {"BUY", "SELL"}

\* half a share, half a share less 0.00005, two shares
OrderQuantities == {QTY_SCALE \div 2, QTY_SCALE \div 2 - 1, 2 * QTY_SCALE}

\* what one order found and what it left
OrderRecord(target, side, ticker, quantity, price, fill_price, error, fees, cash_before, positions_before, trades_before, cash_after, positions_after, trades_after) ==
    [target |-> target, side |-> side, ticker |-> ticker, quantity |-> quantity,
     price |-> price, fill_price |-> fill_price, error |-> error, fees |-> fees,
     cash_before |-> cash_before, positions_before |-> positions_before,
     trades_before |-> trades_before,
     cash_after |-> cash_after, positions_after |-> positions_after,
     trades_after |-> trades_after]

EnvOrderRecord(side, ticker, quantity, price, e, r) ==
    OrderRecord("env", side, ticker, quantity, price, price, "none", r.fees,
                e.current_cash, e.positions, 0,
                r.env.current_cash, r.env.positions, 0)

InitOrders ==
    /\ \E rp \in RiskProfiles :
          /\ env = [r \in Runs |-> NewEnv(OrderTickers, InitialCash, rp, "continuous", MaxStepsBound)]
          /\ book \in {NoBook} \cup {NewBook(InitialCash, rp, sm) :
                                       sm \in {DefaultSlippageModel, ZeroSlippageModel}}
    /\ ret = [r \in Runs |-> NoRet]
    /\ OrchIdle
    /\ scope = NoScope
    /\ orders = << >>
    /\ buffer = NoBuffer
    /\ calc = NoCalc

\* the environment places a BUY
PlaceBuyOrder ==
    /\ book = NoBook
    /\ Len(orders) < MaxOrders
    /\ \E t \in SeqRange(OrderTickers), q \in OrderQuantities, p \in PriceSet :
        \E r \in {place_buy_order(env[EnvRun], t, q, p)} :
           /\ env' = [env EXCEPT ![EnvRun] = r.env]
           /\ orders' = Append(orders, EnvOrderRecord("BUY", t, q, p, env[EnvRun], r))
           /\ UNCHANGED <<ret, orch_vars, scope, book, buffer, calc>>

\* the environment places a SELL
PlaceSellOrder ==
    /\ book = NoBook
    /\ Len(orders) < MaxOrders
    /\ \E t \in SeqRange(OrderTickers), q \in OrderQuantities, p \in PriceSet :
        \E r \in {place_sell_order(env[EnvRun], t, q, p)} :
           /\ env' = [env EXCEPT ![EnvRun] = r.env]
           /\ orders' = Append(orders, EnvOrderRecord("SELL", t, q, p, env[EnvRun], r))
           /\ UNCHANGED <<ret, orch_vars, scope, book, buffer, calc>>

\* a caller hands an order to the executor; an error leaves the session
\* without changes and is raised to the caller
ExecuteOrder ==
    /\ book # NoBook
    /\ Len(orders) < MaxOrders
    /\ \E side \in Sides, t \in SeqRange(OrderTickers), q \in OrderQuantities, p \in PriceSet :
        \E r \in {execute_order(book, [ticker |-> t, side |-> side, quantity |-> q, price |-> p])} :
           /\ book' = r.book
           /\ orders' = Append(orders,
                  OrderRecord("executor", side, t, q, p, r.price, r.error, r.fees,
                              book.portfolio.current_cash, book.positions, Len(book.trades),
                              r.book.portfolio.current_cash, r.book.positions,
                              Len(r.book.trades)))
           /\ UNCHANGED <<env, ret, orch_vars, scope, buffer, calc>>

NextOrders == PlaceBuyOrder \/ PlaceSellOrder \/ ExecuteOrder

SpecOrders == InitOrders /\ [][NextOrders]_vars

\* ------------------------------------------------- a replay buffer in use
MaxCapacity == 3
MaxAdds == 5
MaxBatch == 2

InitReplay ==
    /\ env = [r \in Runs |-> TrainEnv]
    /\ ret = [r \in Runs |-> NoRet]
    /\ OrchIdle
    /\ scope = NoScope
    /\ book = NoBook
    /\ orders = << >>
    /\ calc = NoCalc
    /\ \E capacity \in 1..MaxCapacity : buffer = NewReplayBuffer(capacity)

BufferAdd ==
    /\ buffer.total < MaxAdds
    /\ buffer' = [add(buffer, buffer.total + 1) EXCEPT
                      !.added = Append(@, buffer.total + 1),
                      !.total = @ + 1]
    /\ UNCHANGED <<env, ret, orch_vars, scope, book, orders, calc>>

BufferSample ==
    /\ \E batch_size \in 1..MaxBatch :
          \E indices \in [1..batch_size -> 0..(Max(len(buffer), 1) - 1)] :
             \E res \in {sample(buffer, batch_size, indices)} :
                buffer' = [buffer EXCEPT !.sampled = [batch_size |-> batch_size,
                                                      error |-> res.error,
                                                      batch |-> res.batch,
                                                      added |-> buffer.added]]
    /\ UNCHANGED <<env, ret, orch_vars, scope, book, orders, calc>>

BufferClear ==
    /\ buffer' = [clear(buffer) EXCEPT !.added = << >>]
    /\ UNCHANGED <<env, ret, orch_vars, scope, book, orders, calc>>

NextReplay == BufferAdd \/ BufferSample \/ BufferClear

SpecReplay == InitReplay /\ [][NextReplay]_vars

\* --------------------------- the environment under a failing market-data source
\* HOLD everything, or BUY every ticker with 95% of the cash that is left
FeedActions == {[i \in 1..Len(EnvTickers) |-> 0],
                [i \in 1..Len(EnvTickers) |-> (19 * ACT_SCALE) \div 10]}

\* lookback windows: one sample, so that a buffer outgrows the window within
\* an episode, and the default
FeedWindows == {1, LOOKBACK_WINDOW}

InitFeed ==
    /\ \E ms \in 1..MaxStepsBound, w \in FeedWindows :
          env = [r \in Runs |->
                    [NewEnv(EnvTickers, InitialCash, "moderate", "continuous", ms)
                        EXCEPT !.lookback_window = w]]
    /\ ret = [r \in Runs |-> NoRet]
    /\ OrchIdle
    /\ scope = NoScope
    /\ SimIdle

\* reset() while the source answers or fails for any of the tickers
FeedReset ==
    \E q \in QuoteSet(EnvTickers) :
        \E e \in {reset(env[EnvRun], q)} :
           /\ env' = [env EXCEPT ![EnvRun] = e]
           /\ ret' = [ret EXCEPT ![EnvRun] = ResetRet(e)]
           /\ calc' = [fn |-> "reset", quotes |-> q, before |-> env[EnvRun]]
           /\ UNCHANGED <<orch_vars, scope, book, orders, buffer>>

\* step() while the source answers or fails for any of the tickers
FeedStep ==
    /\ ret[EnvRun].op # "none"
    /\ ~env[EnvRun].done
    /\ \E a \in FeedActions, q \in QuoteSet(EnvTickers) :
        \E r \in {step(env[EnvRun], a, q)} :
           /\ env' = [env EXCEPT ![EnvRun] = r.env]
           /\ ret' = [ret EXCEPT ![EnvRun] = StepRet(r)]
           /\ calc' = [fn |-> "step", quotes |-> q, before |-> env[EnvRun]]
           /\ UNCHANGED <<orch_vars, scope, book, orders, buffer>>

NextFeed == FeedReset \/ FeedStep

SpecFeed == InitFeed /\ [][NextFeed]_vars

\* ------------------------------------- the pure functions called on their own
\* (one call in each behaviour)
\* arguments of calculate_reward: NAVs of -$50, $0, $1, $100 and $1000, fees
\* of $0, $1 and $500, return histories of length 0, 1 and 2 (in 1/100)
RewardNavs == {-50 * MONEY_SCALE, 0, MONEY_SCALE, 100 * MONEY_SCALE, 1000 * MONEY_SCALE}
RewardFees == {0, MONEY_SCALE, 500 * MONEY_SCALE}
RewardReturns == {<< >>, <<50>>, <<50, -50>>, <<2000, -2000>>}
RewardPeaks == {0, 100 * MONEY_SCALE, 1000 * MONEY_SCALE}

\* orders of 0.00005, 0.5, 2 and 10000 shares
CalcQuantities == {1, QTY_SCALE \div 2, 2 * QTY_SCALE, 10000 * QTY_SCALE}

InitCalc ==
    /\ env = [r \in Runs |-> TrainEnv]
    /\ ret = [r \in Runs |-> NoRet]
    /\ OrchIdle
    /\ scope = NoScope
    /\ SimIdle

CalcReward ==
    /\ calc = NoCalc
    /\ \E prev_nav \in RewardNavs, current_nav \in RewardNavs, trade_fees \in RewardFees,
          risk_profile \in RiskProfiles, returns_history \in RewardReturns,
          peak_nav \in RewardPeaks :
          calc' = [fn |-> "calculate_reward",
                   prev_nav |-> prev_nav, current_nav |-> current_nav,
                   trade_fees |-> trade_fees, risk_profile |-> risk_profile,
                   returns_history |-> returns_history, peak_nav |-> peak_nav,
                   result |-> calculate_reward(prev_nav, current_nav, trade_fees,
                                               risk_profile, returns_history, peak_nav)]
    /\ UNCHANGED <<env, ret, orch_vars, scope, book, orders, buffer>>

CalcSlippage ==
    /\ calc = NoCalc
    /\ \E price \in PriceSet, quantity \in CalcQuantities, side \in Sides,
          model \in {DefaultSlippageModel, ZeroSlippageModel} :
          calc' = [fn |-> "calculate_slippage",
                   price |-> price, quantity |-> quantity, side |-> side, model |-> model,
                   result |-> calculate_slippage(price, quantity, side, model)]
    /\ UNCHANGED <<env, ret, orch_vars, scope, book, orders, buffer>>

\* the fee of one order under each of the three risk profiles
CalcFees ==
    /\ calc = NoCalc
    /\ \E price \in PriceSet, quantity \in CalcQuantities :
          calc' = [fn |-> "calculate_fees",
                   price |-> price, quantity |-> quantity,
                   calculator |-> DefaultFeeCalculator,
                   result |-> [rp \in RiskProfiles |->
                                  calculate_fees(price, quantity, rp, DefaultFeeCalculator)]]
    /\ UNCHANGED <<env, ret, orch_vars, scope, book, orders, buffer>>

\* ticker counts whose action indices are decoded
MaxTickers == 3

\* discrete environments after a reset, and after a first step that bought
\* every ticker (index 4 = BUY, BUY)
DiscreteFresh ==
    {reset(NewEnv(EnvTickers, InitialCash, "moderate", "discrete", MaxStepsBound + 1), q) :
        q \in EnvQuotes}
\* a single ticker quoted at $100.00 and $10,000.00 of cash
ScenarioCash == 10000 * MONEY_SCALE
ScenarioEnvs ==
    {reset(NewEnv(OrderTickers, ScenarioCash, rp, "discrete", MaxStepsBound + 1),
           [t \in SeqRange(OrderTickers) |-> 100 * MONEY_SCALE]) : rp \in RiskProfiles}

DiscreteEnvs ==
    DiscreteFresh \cup {step(e, 4, q).env : e \in DiscreteFresh, q \in EnvQuotes}
                  \cup ScenarioEnvs

\* the decoding of every index of the action space of 1..MaxTickers tickers
CalcDecode ==
    /\ calc = NoCalc
    /\ \E n \in 1..MaxTickers :
          \E action_index \in 0..(Pow3(n) - 1) :
             calc' = [fn |-> "decode_action", action_index |-> action_index, n |-> n,
                      result |-> decode_action(action_index, n)]
    /\ UNCHANGED <<env, ret, orch_vars, scope, book, orders, buffer>>

\* _execute_discrete_action applied to an environment
CalcDiscrete ==
    /\ calc = NoCalc
    /\ \E e \in DiscreteEnvs :
          \E action_index \in 0..(Pow3(Len(e.tickers)) - 1) :
             \E r \in {execute_discrete_action(e, action_index)} :
                calc' = [fn |-> "execute_discrete_action", action_index |-> action_index,
                         before |-> e, after |-> r.env, fees |-> r.fees]
    /\ UNCHANGED <<env, ret, orch_vars, scope, book, orders, buffer>>

NextCalc == CalcReward \/ CalcSlippage \/ CalcFees \/ CalcDecode \/ CalcDiscrete

SpecCalc == InitCalc /\ [][NextCalc]_vars

\* ------------------------------------------------------------ claims
\* C1: STOPPED, FAILED and COMPLETED are terminal: once the persisted status
\* of a run is one of them, no step of any operation changes it.
C1_TerminalStatus ==
    [][\A r \in Runs :
          agent_runs[r].status \in TerminalStatus =>
              agent_runs'[r].status = agent_runs[r].status]_vars

\* C2: when a Stop that found the task of its run still executing has
\* returned, the task is over (it takes no further step), the run is in
\* neither table, and the persisted status is STOPPED.
C2_StopOnExecutingTask ==
    \A s \in StopIds :
        (stop[s].pc = "returned" /\ stop[s].entry = "executing") =>
            /\ task[stop[s].run].pc \in DonePcs
            /\ stop[s].run \notin running_agents
            /\ stop[s].run \notin agent_instances
            /\ agent_runs[stop[s].run].status = "stopped"

\* a Stop has returned whose cancel() arrived while the task was committing
\* its COMPLETED status, and the commit took effect
C2_Witness ==
    \E s \in StopIds :
        /\ stop[s].pc = "returned"
        /\ stop[s].entry = "executing"
        /\ task[stop[s].run].pc = "cancelled"
        /\ agent_runs[stop[s].run].final_nav >= 0

\* C3: a Stop for a run that is not in the run table, or whose task has
\* already ended (normally or with an exception), does not raise.
C3_StopNeverRaises ==
    \A s \in StopIds :
        stop[s].entry \in {"unregistered", "finished", "raised"} => stop[s].pc # "raised"

\* the rows, tasks and table entries of the runs other than r stay as they are
OthersUnaffected(r) ==
    \A o \in Runs \ {r} :
        /\ task'[o] = task[o]
        /\ agent_runs'[o] = agent_runs[o]
        /\ (o \in running_agents') = (o \in running_agents)
        /\ (o \in agent_instances') = (o \in agent_instances)

\* C4: a task enters the failure handler and leaves it by re-raising without
\* touching any other run, and when it re-raises the row of its run reads
\* FAILED with the text of the exception.
C4_LoopExceptionFails ==
    [][\A r \in Runs :
          /\ (task[r].pc # "fail_db" /\ task'[r].pc = "fail_db") =>
                 (task'[r].err # "none" /\ OthersUnaffected(r))
          /\ (task[r].pc = "fail_db" /\ task'[r].pc = "raised") =>
                 /\ agent_runs'[r].status = "failed"
                 /\ agent_runs'[r].error_message = task[r].err
                 /\ OthersUnaffected(r)]_vars

\* one run has FAILED with the policy's error while the other is still
\* RUNNING with its task suspended in the loop
C4_Witness ==
    \E r \in Runs, o \in Runs :
        /\ r # o
        /\ task[r].pc = "raised"
        /\ agent_runs[r].status = "failed"
        /\ agent_runs[r].error_message = "policy"
        /\ task[o].pc \in SuspendedPcs \ {"pending", "fail_db"}
        /\ agent_runs[o].status = "running"
        /\ o \in running_agents

\* C5: no run is ever FAILED because emitting a metric raised.
C5_MetricFailureKeepsStatus ==
    \A r \in Runs :
        ~(agent_runs[r].status = "failed" /\ agent_runs[r].error_message = "metric")

\* stop_agent has been called for run r
StopRequested(r) == \E s \in StopIds : stop[s].pc # "idle" /\ stop[s].run = r

C7_UnknownAlgorithmNeverRunning ==
    \A r \in Runs :
        (start[r].pc # "idle" /\ create_agent(start[r].algorithm) = "ValueError") =>
            agent_runs[r].status # "running"

\* C8: after cancel() was called on the task of a run, its loop executes at
\* most one further environment step.
C8_CancellationLatency ==
    \A r \in Runs : cancel_steps[r] <= 1

\* C9: every step returns done = TRUE exactly when the NAV after the market
\* advance is below a tenth of the initial cash or the incremented step count
\* has reached max_steps.
C9_DoneIff ==
    \A r \in Runs :
        ret[r].op = "step" =>
            (ret[r].done <=> (ret[r].nav * 10 < env[r].initial_cash
                              \/ ret[r].step >= env[r].max_steps))

\* a step that ends the episode by bankruptcy before the step limit
C9_Witness ==
    /\ ret[EnvRun].op = "step"
    /\ ret[EnvRun].done
    /\ ret[EnvRun].nav * 10 < env[EnvRun].initial_cash
    /\ ret[EnvRun].step < env[EnvRun].max_steps

\* C10: the step in which the NAV first falls below a tenth of the initial
\* cash returns done = TRUE and the reward of calculate_reward less 10.0; no
\* earlier NAV of the episode was below the threshold, and a step whose NAV
\* is at or above the threshold returns the reward of calculate_reward as is.
C10_BankruptcyPenalty ==
    \A r \in Runs :
        /\ \A i \in 1..(Len(env[r].nav_history) - 1) :
               env[r].nav_history[i] * 10 >= env[r].initial_cash
        /\ ret[r].op = "step" =>
               IF ret[r].nav * 10 < env[r].initial_cash
               THEN ret[r].done /\ ret[r].reward = ret[r].raw_reward - 10 * REW_SCALE
               ELSE ret[r].reward = ret[r].raw_reward

\* a bankrupt step in the second step of an episode
C10_Witness ==
    /\ ret[EnvRun].op = "step"
    /\ ret[EnvRun].step = 2
    /\ ret[EnvRun].nav * 10 < env[EnvRun].initial_cash
    /\ ret[EnvRun].reward < -10 * REW_SCALE

\* what a BUY has to pay: the order value at the fill price plus the fee
TotalCostOf(o) ==
    IF o.target = "env"
    THEN LET value == MulDiv(o.quantity, o.price, QTY_SCALE)
         IN value + EnvFee(env[EnvRun].risk_profile, value)
    ELSE MulDiv(o.quantity, o.fill_price, QTY_SCALE)
         + ToMoney(calculate_fees(o.fill_price, o.quantity, book.portfolio.risk_profile,
                                  book.fee_calculator), FEE_SCALE)

HeldBefore(o) ==
    IF o.ticker \in DOMAIN o.positions_before THEN o.positions_before[o.ticker].quantity ELSE 0

\* a BUY the cash cannot cover, a SELL of more than is held
Failing(o) ==
    \/ o.side = "BUY" /\ TotalCostOf(o) > o.cash_before
    \/ o.side = "SELL" /\ o.quantity > HeldBefore(o)

Untouched(o) ==
    /\ o.cash_after = o.cash_before
    /\ o.positions_after = o.positions_before
    /\ o.trades_after = o.trades_before
    /\ o.fees = 0

\* C11: an order that fails leaves the portfolio untouched: a BUY whose total
\* cost exceeds the cash, or a SELL with no position or with a quantity above
\* the held one, changes neither cash nor positions nor the trade log, is
\* never partially filled, and contributes zero fees.
C11_FailedOrderNoEffect ==
    \A i \in 1..Len(orders) : Failing(orders[i]) => Untouched(orders[i])

C11_ExecutorPart ==
    \A i \in 1..Len(orders) :
        orders[i].target = "executor" /\ Failing(orders[i]) => Untouched(orders[i])

\* C12: after any sequence of reset and step calls, whatever the actions
\* (discrete or continuous, values outside the documented range included) and
\* the positive prices, the cash is never negative, every held position has
\* a quantity above zero and the net asset value is never negative.
C12_NonNegative ==
    LET e == env[EnvRun]
    IN /\ e.current_cash >= 0
       /\ \A t \in DOMAIN e.positions : e.positions[t].quantity > 0
       /\ compute_nav(e) >= 0

\* a step has bought with the out-of-range value 1.9: a position is held and
\* less than a tenth of the initial cash is left
C12_Witness ==
    LET e == env[EnvRun]
    IN /\ ret[EnvRun].op = "step"
       /\ DOMAIN e.positions # {}
       /\ e.current_cash * 10 < e.initial_cash

\* a SELL that was carried out: the executor did not raise, the environment
\* found a position
SellExecuted(o) ==
    /\ o.side = "SELL"
    /\ HeldBefore(o) > 0
    /\ o.target = "executor" => o.error = "none"

\* what a SELL leaves of the position (the environment sells at most what is held)
LeftAfter(o) == HeldBefore(o) - Min(o.quantity, HeldBefore(o))

PositionFollowsQuantity(o) ==
    /\ LeftAfter(o) = 0 => o.ticker \notin DOMAIN o.positions_after
    /\ LeftAfter(o) > 0 => /\ o.ticker \in DOMAIN o.positions_after
                           /\ o.positions_after[o.ticker].quantity = LeftAfter(o)

\* C13: a position entry exists only while its quantity is above zero: a SELL
\* that brings the quantity to exactly zero deletes the entry, a SELL that
\* leaves any positive remainder keeps the entry with exactly that remainder.
C13_PositionRemovedOnlyAtZero ==
    \A i \in 1..Len(orders) : SellExecuted(orders[i]) => PositionFollowsQuantity(orders[i])

C13_ExecutorPart ==
    \A i \in 1..Len(orders) :
        orders[i].target = "executor" /\ SellExecuted(orders[i])
            => PositionFollowsQuantity(orders[i])

\* a BUY that was filled
BuyFilled(o) == o.side = "BUY" /\ o.positions_after # o.positions_before

\* orders i and i+1 are a filled BUY and a SELL of the same quantity of the
\* same ticker at the same reference price, both filled at that price
RoundTrip(i) ==
    /\ i + 1 <= Len(orders)
    /\ BuyFilled(orders[i])
    /\ orders[i + 1].side = "SELL"
    /\ orders[i + 1].ticker = orders[i].ticker
    /\ orders[i + 1].quantity = orders[i].quantity
    /\ orders[i + 1].price = orders[i].price
    /\ orders[i].fill_price = orders[i].price
    /\ orders[i + 1].fill_price = orders[i + 1].price

RoundTripCash(i) ==
    /\ orders[i + 1].fees = orders[i].fees
    /\ orders[i + 1].cash_after = orders[i].cash_before - 2 * orders[i].fees

TwoBuys(i) ==
    /\ i + 1 <= Len(orders)
    /\ BuyFilled(orders[i])
    /\ BuyFilled(orders[i + 1])
    /\ orders[i + 1].ticker = orders[i].ticker
    /\ orders[i].ticker \notin DOMAIN orders[i].positions_before

AvgOf(o, pos) == IF o.target = "env" THEN pos.avg_price ELSE pos.avg_purchase_price

\* the positions left when orders i and i+1 are placed in the other order on
\* the state that order i found
PositionsInOtherOrder(i) ==
    LET o1 == orders[i]
        o2 == orders[i + 1]
    IN IF o1.target = "env"
       THEN LET e0 == [env[EnvRun] EXCEPT !.current_cash = o1.cash_before,
                                          !.positions = o1.positions_before]
                e1 == place_buy_order(e0, o2.ticker, o2.quantity, o2.price).env
            IN place_buy_order(e1, o1.ticker, o1.quantity, o1.price).env.positions
       ELSE LET b0 == [book EXCEPT !.portfolio.current_cash = o1.cash_before,
                                   !.positions = o1.positions_before]
                b1 == execute_order(b0, [ticker |-> o2.ticker, side |-> "BUY",
                                         quantity |-> o2.quantity, price |-> o2.price]).book
            IN execute_order(b1, [ticker |-> o1.ticker, side |-> "BUY",
                                  quantity |-> o1.quantity, price |-> o1.price]).book.positions

\* C15: two successful BUYs of the same ticker, q1 filled at p1 and q2 filled
\* at p2, starting from no position, leave the quantity q1 + q2 at the average
\* cost (q1*p1 + q2*p2) / (q1 + q2), and the same position whichever of the
\* two is placed first.
C15_WeightedAverage ==
    \A i \in 1..Len(orders) :
        TwoBuys(i) =>
            LET o1 == orders[i]
                o2 == orders[i + 1]
                pos == o2.positions_after[o1.ticker]
            IN /\ pos.quantity = o1.quantity + o2.quantity
               /\ AvgOf(o2, pos) = (o1.quantity * o1.fill_price + o2.quantity * o2.fill_price)
                                       \div (o1.quantity + o2.quantity)
               /\ PositionsInOtherOrder(i) = o2.positions_after

\* two BUYs of different quantities were filled at different prices
C15_Witness ==
    \E i \in 1..Len(orders) :
        /\ TwoBuys(i)
        /\ orders[i].quantity # orders[i + 1].quantity
        /\ orders[i].fill_price # orders[i + 1].fill_price

\* the transitions in the filled slots
Stored(b) == {b.slots[i] : i \in 1..len(b)}

\* C16: a ReplayBuffer of capacity N reports len() = min(number of adds, N);
\* it holds exactly the most recent min(adds, N) transitions, so after N + k
\* adds the oldest k are overwritten; sample(n) fails with the
\* not-enough-samples error when n > len() and otherwise returns n
\* transitions taken from the filled slots.
C16_RingBuffer ==
    LET n_added == Len(buffer.added)
        s == buffer.sampled
        had == Min(Len(s.added), buffer.capacity)
    IN /\ len(buffer) = Min(n_added, buffer.capacity)
       /\ Stored(buffer) = SeqRange(LastN(buffer.added, buffer.capacity))
       /\ Cardinality(Stored(buffer)) = len(buffer)
       /\ s.batch_size > had <=> s.error = "ValueError"
       /\ s.error = "none" =>
             /\ Len(s.batch) = s.batch_size
             /\ \A i \in 1..Len(s.batch) :
                    s.batch[i] \in SeqRange(LastN(s.added, buffer.capacity))

\* more transitions were added than the buffer holds, and a sample of two
\* was then drawn
C16_Witness ==
    /\ Len(buffer.added) > buffer.capacity
    /\ buffer.sampled.added = buffer.added
    /\ buffer.sampled.batch_size = 2
    /\ buffer.sampled.error = "none"

\* a sample was asked for that the buffer could not fill
C16_WitnessTooFew ==
    /\ buffer.sampled.error = "ValueError"
    /\ Len(buffer.sampled.added) > 0

\* C17: calculate_reward always returns a value within [-10, 10], whatever
\* its arguments: previous NAV at or below zero, current NAV at or below zero
\* and an empty or single-sample return history included.
C17_RewardClipped ==
    calc.fn = "calculate_reward" =>
        /\ calc.result >= -REWARD_CLIP
        /\ calc.result <= REWARD_CLIP

\* the NAV fell from a positive value to zero or below with a single return
\* on record, and the reward was clipped at -10
C17_Witness ==
    /\ calc.fn = "calculate_reward"
    /\ calc.prev_nav > 0
    /\ calc.current_nav <= 0
    /\ Len(calc.returns_history) = 1
    /\ calc.result = -REWARD_CLIP

SlippageBounded ==
    Abs(calc.result) <= calc.model.max_slippage * calc.price

FeesAtLeastMinimum ==
    \A rp \in RiskProfiles : calc.result[rp] >= calc.calculator.min_fee

\* C19 as stated: the fee is never below the minimum fee, and for identical
\* notional value the fee (hence the fee as a rate of the notional) strictly
\* decreases from conservative to moderate to aggressive.
C19_FeeStrictlyDecreasing ==
    calc.fn = "calculate_fees" =>
        /\ FeesAtLeastMinimum
        /\ calc.result["conservative"] > calc.result["moderate"]
        /\ calc.result["moderate"] > calc.result["aggressive"]

\* C19, amended: the fee is never below the minimum fee; for identical
\* notional value it never increases from conservative to moderate to
\* aggressive, and it strictly decreases whenever the moderate percentage of
\* the notional exceeds the minimum fee.
C19_FeeTiers ==
    calc.fn = "calculate_fees" =>
        /\ FeesAtLeastMinimum
        /\ calc.result["conservative"] >= calc.result["moderate"]
        /\ calc.result["moderate"] >= calc.result["aggressive"]
        /\ calculate_fees_no_minimum(calc.price, calc.quantity, "moderate", calc.calculator)
              > calc.calculator.min_fee
             => /\ calc.result["conservative"] > calc.result["moderate"]
                /\ calc.result["moderate"] > calc.result["aggressive"]

\* an order whose aggressive fee is the minimum fee while the two other tiers
\* pay their percentage
C19_Witness ==
    /\ calc.fn = "calculate_fees"
    /\ calc.result["aggressive"] = calc.calculator.min_fee
    /\ calc.result["moderate"] > calc.calculator.min_fee

\* the buffer and the price of ticker t at the moment the fetch loop starts:
\* reset() has emptied both, step() has left them as they were
BufferAtFetch(t) ==
    IF calc.fn = "reset" THEN << >> ELSE calc.before.market_data_buffer[t]

PricedAtFetch(t) == calc.fn = "step" /\ t \in DOMAIN calc.before.current_prices

\* C20: when the market-data source fails for one ticker during a reset or a
\* step, the episode goes on: the current price and the price-history buffer
\* of that ticker are left exactly as they were, every other ticker receives
\* its new sample, and the step still returns reward and done flag (with its
\* observation).
C20_FetchFailureIsolated ==
    calc.fn \in {"reset", "step"} =>
        LET e == env[EnvRun]
            q == calc.quotes
        IN /\ \A t \in SeqRange(e.tickers) :
                 IF q[t] = FetchFailed
                 THEN /\ e.market_data_buffer[t] = BufferAtFetch(t)
                      /\ t \in DOMAIN e.current_prices <=> PricedAtFetch(t)
                      /\ PricedAtFetch(t) => e.current_prices[t] = calc.before.current_prices[t]
                 ELSE /\ e.market_data_buffer[t]
                           = LastN(Append(BufferAtFetch(t), q[t]), e.lookback_window * 2)
                      /\ e.current_prices[t] = q[t]
           /\ ret[EnvRun].op = calc.fn
           /\ calc.fn = "step" =>
                 /\ ret[EnvRun].step = calc.before.current_step + 1
                 /\ ret[EnvRun].done \in BOOLEAN
                 /\ ret[EnvRun].reward \in Int
                 /\ e.current_step = calc.before.current_step + 1

\* a step in which the quote of the first ticker failed while a position in
\* it was held at a known price, and the second ticker was quoted
C20_Witness ==
    /\ calc.fn = "step"
    /\ calc.quotes[EnvTickers[1]] = FetchFailed
    /\ calc.quotes[EnvTickers[2]] # FetchFailed
    /\ EnvTickers[1] \in DOMAIN calc.before.positions
    /\ EnvTickers[1] \in DOMAIN env[EnvRun].current_prices

\* the portfolio and episode part of the environment's state
EpisodeState(e) ==
    [current_cash |-> e.current_cash, positions |-> e.positions,
     current_step |-> e.current_step, done |-> e.done,
     nav_history |-> e.nav_history, returns_history |-> e.returns_history,
     peak_nav |-> e.peak_nav]

InitialEpisodeState(e) ==
    [current_cash |-> e.initial_cash, positions |-> EmptyDict,
     current_step |-> 0, done |-> FALSE,
     nav_history |-> <<e.initial_cash>>, returns_history |-> << >>,
     peak_nav |-> e.initial_cash]

\* C21: reset(), called in any state (fresh, in the middle of an episode or
\* after termination), leaves cash = initial cash, no positions, step count 0,
\* done = false, NAV history = [initial cash], an empty returns history and
\* peak NAV = initial cash; a reset that directly follows a reset leaves the
\* same portfolio and episode state as the first one did.
C21_ResetInitialState ==
    [][calc'.fn = "reset" =>
          /\ EpisodeState(env'[EnvRun]) = InitialEpisodeState(env[EnvRun])
          /\ calc.fn = "reset" => EpisodeState(env'[EnvRun]) = EpisodeState(env[EnvRun])]_vars

\* a reset of an environment that had terminated while holding a position
C21_Witness ==
    /\ calc.fn = "reset"
    /\ calc.before.done
    /\ calc.before.positions # EmptyDict
    /\ calc.before.current_cash # calc.before.initial_cash
    /\ Len(calc.before.returns_history) > 0

\* C22: every observation reset() or step() returns has exactly
\* 1 + 2*T + 3*T*W + 5*T entries for T tickers and lookback window W, whatever
\* the state: buffers with no sample, fewer than W or more than W samples,
\* with or without positions, and after failed fetches.
C22_ObservationLength ==
    ret[EnvRun].op # "none" =>
        LET e == env[EnvRun]
            T == Len(e.tickers)
            W == e.lookback_window
        IN /\ Len(get_observation(e)) = 1 + 2 * T + 3 * T * W + 5 * T
           /\ Len(get_observation(e)) = get_observation_dim(T, W)

\* an observation after a step with a position held in the first ticker,
\* whose buffer holds more samples than the window, while the second ticker
\* has never been quoted
C22_Witness ==
    /\ ret[EnvRun].op = "step"
    /\ EnvTickers[1] \in DOMAIN env[EnvRun].positions
    /\ Len(env[EnvRun].market_data_buffer[EnvTickers[1]]) > env[EnvRun].lookback_window
    /\ env[EnvRun].market_data_buffer[EnvTickers[2]] = << >>

\* an observation over a buffer shorter than the window, left-padded
C22_WitnessPadded ==
    /\ ret[EnvRun].op = "step"
    /\ env[EnvRun].lookback_window = LOOKBACK_WINDOW
    /\ Len(env[EnvRun].market_data_buffer[EnvTickers[1]]) = 2
    /\ Len(recent_data(env[EnvRun].market_data_buffer[EnvTickers[1]], LOOKBACK_WINDOW))
         = LOOKBACK_WINDOW

\* the value of a digit string, least significant digit first
RECURSIVE Base3Value(_)
Base3Value(digits) ==
    IF digits = << >> THEN 0 ELSE Head(digits) + 3 * Base3Value(Tail(digits))

\* the quantity held of a ticker, zero when there is no position
HeldOf(e, t) == IF t \in DOMAIN e.positions THEN e.positions[t].quantity ELSE 0

\* C23: for every action index a in [0, 3^T) the intent for the i-th ticker is
\* the i-th base-3 digit of a (0 = HOLD, 1 = BUY, 2 = SELL): distinct indices
\* decode to distinct intent vectors, every intent vector is decoded from
\* exactly one index, and a HOLD digit places no order for its ticker (its
\* position is untouched; a BUY digit can only raise it, a SELL digit only
\* lower it).
C23_DiscreteDecoding ==
    /\ calc.fn = "decode_action" =>
          /\ calc.result \in [1..calc.n -> 0..2]
          /\ Base3Value(calc.result) = calc.action_index
          /\ \A i \in 1..calc.n :
                calc.result[i] = (calc.action_index \div Pow3(i - 1)) % 3
          /\ \A b \in 0..(Pow3(calc.n) - 1) :
                decode_action(b, calc.n) = calc.result => b = calc.action_index
          /\ \A v \in [1..calc.n -> 0..2] :
                Cardinality({b \in 0..(Pow3(calc.n) - 1) : decode_action(b, calc.n) = v}) = 1
    /\ calc.fn = "execute_discrete_action" =>
          LET e == calc.before
              digit(i) == (calc.action_index \div Pow3(i - 1)) % 3
          IN /\ \A i \in 1..Len(e.tickers) :
                   LET t == e.tickers[i]
                   IN /\ digit(i) = 0 =>
                            /\ (t \in DOMAIN calc.after.positions) = (t \in DOMAIN e.positions)
                            /\ t \in DOMAIN e.positions => calc.after.positions[t] = e.positions[t]
                      /\ digit(i) = 1 => HeldOf(calc.after, t) >= HeldOf(e, t)
                      /\ digit(i) = 2 => HeldOf(calc.after, t) <= HeldOf(e, t)
             /\ (\A i \in 1..Len(e.tickers) : digit(i) = 0) =>
                   /\ calc.fees = 0
                   /\ calc.after = e

\* index 7 = (BUY, SELL) decoded for two tickers
C23_WitnessDecoded ==
    /\ calc.fn = "decode_action"
    /\ calc.n = 2
    /\ calc.action_index = 7
    /\ calc.result = <<1, 2>>

\* index 6 = (HOLD, SELL) applied while both tickers are held: the first
\* position stays and the second shrinks
C23_Witness ==
    /\ calc.fn = "execute_discrete_action"
    /\ calc.action_index = 6
    /\ DOMAIN calc.before.positions = SeqRange(EnvTickers)
    /\ calc.after.positions[EnvTickers[1]] = calc.before.positions[EnvTickers[1]]
    /\ HeldOf(calc.after, EnvTickers[2]) < HeldOf(calc.before, EnvTickers[2])

\* a discrete BUY of the single ticker in the $10,000 / $100 scenario
ScenarioBuy ==
    /\ calc.fn = "execute_discrete_action"
    /\ calc.before \in ScenarioEnvs
    /\ calc.action_index = 1

\* the value at the order price of the position held after the call
BoughtValue == MulDiv(HeldOf(calc.after, OrderTickers[1]), 100 * MONEY_SCALE, QTY_SCALE)

\* C24: a discrete BUY spends the fixed 10% of the cash held when the order is
\* placed, fee included: from $10,000 of cash and a single ticker at $100 the
\* position bought is the 10% budget less the fee (about 9.99 shares), the
\* cash left is $9,000 (to the cent), and the fee of the step is positive.
C24_DiscreteBuyBudget ==
    ScenarioBuy =>
        LET budget == calc.before.current_cash \div 10
        IN /\ calc.fees > 0
           /\ Abs((calc.before.current_cash - calc.after.current_cash) - budget) <= 1
           /\ Abs((BoughtValue + calc.fees) - budget) <= 1
           /\ HeldOf(calc.after, OrderTickers[1]) < 10 * QTY_SCALE

\* what _execute_discrete_action does in the scenario: the whole 10% budget
\* buys 10 shares and the fee is paid on top of it
C24_FeeOnTop ==
    ScenarioBuy =>
        LET budget == calc.before.current_cash \div 10
        IN /\ calc.fees = EnvFee(calc.before.risk_profile, budget)
           /\ calc.fees > 0
           /\ HeldOf(calc.after, OrderTickers[1]) = 10 * QTY_SCALE
           /\ calc.after.current_cash = calc.before.current_cash - budget - calc.fees

C24_Witness ==
    /\ ScenarioBuy
    /\ calc.before.risk_profile = "moderate"
    /\ calc.after.current_cash = 8999 * MONEY_SCALE

\* the executor's rows in the state an order of the environment found: the
\* environment's cash and positions, its risk profile, and the slippage and
\* fee models of the OrderExecutor() the environment constructs
BookBefore(o) ==
    [NewBook(o.cash_before, env[EnvRun].risk_profile, DefaultSlippageModel)
        EXCEPT !.positions =
                   [t \in DOMAIN o.positions_before |->
                       [quantity |-> o.positions_before[t].quantity,
                        avg_purchase_price |-> o.positions_before[t].avg_price]]]

\* what OrderExecutor.execute_order makes of the same order in the same state
ExecutorOn(o) ==
    execute_order(BookBefore(o),
                  [ticker |-> o.ticker, side |-> o.side, quantity |-> o.quantity,
                   price |-> o.price])

QuantityIn(positions, t) == IF t \in DOMAIN positions THEN positions[t].quantity ELSE 0

\* C25: the environment fills every order the way the OrderExecutor does: for
\* the same order (ticker, side, quantity, reference price) and risk profile,
\* the cash, the quantity held and the fee after _place_buy_order or
\* _place_sell_order equal those execute_order produces (execution price =
\* reference price + slippage, fee = the risk profile's rate with the minimum
\* fee), and a SELL of more than is held is rejected, not reduced.
C25_EnvFillsThroughExecutor ==
    \A i \in 1..Len(orders) :
        orders[i].target = "env" =>
            LET o == orders[i]
                r == ExecutorOn(o)
            IN /\ o.cash_after = r.book.portfolio.current_cash
               /\ QuantityIn(o.positions_after, o.ticker) = QuantityIn(r.book.positions, o.ticker)
               /\ o.fees = r.fees
               /\ (o.side = "SELL" /\ o.quantity > QuantityIn(o.positions_before, o.ticker)) =>
                     /\ o.cash_after = o.cash_before
                     /\ o.positions_after = o.positions_before

\* the rewards carried by the metric rows of a run, added up
RECURSIVE SumRewards(_)
SumRewards(rows) ==
    IF rows = << >> THEN 0 ELSE Head(rows).episode_reward + SumRewards(Tail(rows))

\* the cumulative reward of the latest metric row of a run (0 without rows)
LatestCumulative(rows) ==
    IF rows = << >> THEN 0 ELSE rows[Len(rows)].cumulative_reward

\* the reward of the current interval not yet carried by a row: the interval
\* sum, unless the row that carries it is already committed and only the
\* broadcast is outstanding (a task cancelled inside _log_metric may have
\* committed the row as well)
PendingReward(t) ==
    IF t.pc = "lm_send" /\ t.site \in {"interim", "final"} THEN 0 ELSE t.accum

\* no metric error has ended the task of r (the error discards the interval
\* sum of the episode it interrupts)
TrainingSound(r) == task[r].err # "metric"

\* the task of r stands between two episodes or after the last one
BetweenEpisodes(t) ==
    \/ t.pc \in {"complete_db", "finished"}
    \/ t.pc = "lm_db" /\ t.site = "warm"

LiveStepTaken(r) ==
    task[r].mode = "live" /\ task'[r].step = task[r].step + 1

\* C27: a LIVE run does not end because its environment terminates: a step
\* is never taken on a terminated environment (the environment is reset
\* first, so the step is the first of a new episode), a step that reports
\* done leaves the persisted status as it was and the loop going, actions are
\* selected without exploration, and the loop ends only once the run is no
\* longer registered (it was stopped) or an exception escaped.
C27_LiveOutlivesEpisodes ==
    /\ [](\A r \in Runs :
            task[r].mode = "live" =>
                /\ task[r].selected \in {"none", "greedy"}
                /\ task[r].pc = "finished" => r \notin running_agents
                /\ task[r].pc \in {"fail_db", "raised"} => task[r].err # "none"
                /\ agent_runs[r].status # "completed"
                /\ agent_runs[r].status = "failed" => task[r].err # "none")
    /\ [][\A r \in Runs :
            LiveStepTaken(r) =>
                /\ env'[r].current_step =
                       (IF env[r].done \/ task[r].pc = "pending" THEN 0
                        ELSE env[r].current_step) + 1
                /\ task'[r].pc \in {"lm_db", "live_sleep"}
                /\ agent_runs'[r] = agent_runs[r]
                /\ r \in running_agents']_vars

\* a registered live run that has taken more steps than its current episode
\* holds: an episode ended (in bankruptcy) and the loop went on after a reset
C27_Witness ==
    \E r \in Runs :
        /\ task[r].mode = "live"
        /\ task[r].pc = "live_sleep"
        /\ r \in running_agents
        /\ agent_runs[r].status = "running"
        /\ env[r].current_step >= 1
        /\ task[r].step > env[r].current_step

\* the runs persisted as RUNNING for portfolio p
RunningFor(p) ==
    {r \in Runs : agent_runs[r].status = "running" /\ agent_runs[r].portfolio = p}

\* a rejected Start has created neither a run record nor a task
RejectedLeavesNothing ==
    \A r \in Runs :
        start[r].pc = "rejected" =>
            /\ agent_runs[r] = NoRun
            /\ task[r] = NoTask
            /\ r \notin running_agents

\* C28: at most one run with persisted status RUNNING exists for a portfolio
\* at any time, also when two Start requests for the same portfolio
\* interleave at their database awaits; a Start for a portfolio that has a
\* RUNNING run is rejected without creating a run record or a task.
C28_OneRunningPerPortfolio ==
    /\ \A p \in Portfolios : Cardinality(RunningFor(p)) <= 1
    /\ RejectedLeavesNothing

\* the part that holds: a Start whose running-run query is answered while a
\* RUNNING run of its portfolio exists is rejected and leaves nothing behind
C28_RejectedWhenSeen ==
    /\ []RejectedLeavesNothing
    /\ [][\A r \in Runs :
            (/\ start[r].pc = "check"
             /\ start'[r].pc # "check"
             /\ AlreadyRunning(agent_runs, start[r].portfolio))
            => start'[r].pc = "rejected"]_vars

\* two Stop calls for one run that both found its task still executing
Overlapping(s1, s2) ==
    /\ s1 # s2
    /\ stop[s1].entry = "executing"
    /\ stop[s2].entry = "executing"
    /\ stop[s1].run = stop[s2].run

\* no Start and no Stop is under way
Quiescent ==
    /\ \A r \in Runs : start[r].pc \in {"idle", "rejected", "started", "failed"}
    /\ \A s \in StopIds : stop[s].pc \in {"idle", "returned", "raised"}

\* the run table and the policy-instance table hold the same run ids
TablesAgree == running_agents = agent_instances

\* C29: two Stop calls for the same running run that overlap (the second
\* starts while the first still awaits the cancelled task) both return without
\* raising, and once both have returned the run id is in neither the run table
\* nor the policy-instance table and the persisted status is STOPPED; the two
\* tables hold the same run ids whenever no Start or Stop is in progress.
C29_OverlappingStops ==
    /\ \A s1, s2 \in StopIds :
          Overlapping(s1, s2) =>
              /\ stop[s1].pc # "raised"
              /\ (stop[s1].pc = "returned" /\ stop[s2].pc = "returned") =>
                    /\ stop[s1].run \notin running_agents
                    /\ stop[s1].run \notin agent_instances
                    /\ agent_runs[stop[s1].run].status = "stopped"
    /\ Quiescent => TablesAgree

\* the part that holds: the two tables agree in every state, and a Stop that
\* found the task executing and has returned leaves its run in neither of them
C29_TablesAgree ==
    /\ TablesAgree
    /\ \A s \in StopIds :
          (stop[s].pc = "returned" /\ stop[s].entry = "executing") =>
              stop[s].run \notin running_agents \cup agent_instances

\* the loop of run r ended by itself and its final status was persisted
EndedByItself(r) ==
    /\ task[r].pc \in {"finished", "raised"}
    /\ agent_runs[r].status \in {"completed", "failed"}

\* C30: the run table holds only live runs: with no Start or Stop in progress,
\* every run id in the run table is also in the policy-instance table and its
\* persisted status is RUNNING, and a run whose loop ended by itself with
\* COMPLETED or FAILED is no longer registered.
C30_RunTableHoldsLiveRuns ==
    /\ Quiescent =>
          \A r \in running_agents :
              r \in agent_instances /\ agent_runs[r].status = "running"
    /\ \A r \in Runs : EndedByItself(r) => r \notin running_agents

\* what the manager does keep: only Stop deletes from the two tables, so a
\* run whose task exists and that is absent from the run table was removed by
\* a Stop call, and a run that ended by itself is still in both tables unless
\* a Stop call removed it afterwards.
C30_OnlyStopUnregisters ==
    \A r \in Runs :
        (task[r].pc # "none" /\ r \notin running_agents) =>
            \E s \in StopIds :
                /\ stop[s].run = r
                /\ stop[s].entry \in {"executing", "finished", "cancelled"}
                /\ stop[s].pc \in {"select", "commit", "returned"}
====
